---- MODULE Spec2Model ----
(***************************************************************************)
(* Compressed FM-index: BitVector (two-level rank), 8-level WaveletTree,   *)
(* suffix array / BWT builder and the FMIndex driver (count, locate,       *)
(* extract).  Arrays of the C++ code are TLA+ sequences read through At    *)
(* with the code's 0-based indices.  A uint64_t bit word is the set of its *)
(* 1-bit positions (a subset of 0..63).                                    *)
(***************************************************************************)
EXTENDS Integers, Sequences, FiniteSets, TLC

\* ------------------------------------------------------------------ bounds
\* Longest enumerated text (bytes); the scenario texts are listed besides.
MaxLen == 3
\* Longest enumerated pattern.
MaxPat == 2
\* Largest enumerated SSA stride (the default stride 32 is tried besides).
MaxStride == 2
\* Largest enumerated locate limit (the default limit is tried besides).
MaxLimit == 1
\* Width to which the uint64_t arguments of extract are scaled.
U64Bits == 4
\* Number of copies of the byte run 1..255 in the full-alphabet text.
MaxCopies == 2
\* Longest enumerated byte sequence of a WaveletTree.
MaxSeq == 3
\* How far past the end a WaveletTree or a BitVector is asked.
MaxOver == 2
\* Longest period of the enumerated bit streams.
MaxPeriod == 3
\* Up to this length every length of a BitVector is tried.
MaxBits == 4
\* Largest enumerated micro stride of a BitvectorLearned.
MaxMicro == 2
\* Longest enumerated content of a container section.
MaxContent == 2
\* Most levels of an enumerated VebLayout.
MaxLevels == 3
\* Most lines of the enumerated standard input of the build command.
MaxLines == 2
\* The chunks the padding loop of an IndexWriter can write before the disk
\* is full.
MaxChunks == 3

\* ------------------------------------------------------- program constants
CS_SUPER_BLOCK_SIZE == 2048
CS_SUB_BLOCK_SIZE == 256
WORD_BITS == 64
DefaultStride == 32
DefaultLimit == 100000
\* '$', the terminator the tools and tests append
Dollar == 36
\* sizeof(IndexHeader)
HeaderSize == 88
VEB_MACROBLOCK_SIZE == 4096
\* the page alignment of the vEB section
VebAlignment == 4096

\* ---------------------------------------------------------------- helpers
At(s, i) == s[i + 1]

Min(a, b) == IF a < b THEN a ELSE b

\* A std::vector or std::string as stored: the sequence s, its elements
\* computed once.
Vector(s) == s \o <<>>

Pow2(k) == 2 ^ k

\* Sum of f[lo] .. f[hi] for a function f on integers (0 when lo > hi).
RECURSIVE SumFn(_, _, _)
SumFn(f, lo, hi) ==
  IF lo > hi THEN 0
  ELSE IF lo = hi THEN f[lo]
  ELSE SumFn(f, lo, (lo + hi) \div 2) + SumFn(f, (lo + hi) \div 2 + 1, hi)

\* ~0ULL << k, for 0 <= k < 64
ShlOnes(k) == k..(WORD_BITS - 1)
\* ~0ULL >> k, for 0 <= k < 64
ShrOnes(k) == 0..(WORD_BITS - 1 - k)
\* (1ULL << k) - 1, for 0 <= k < 64
LowMask(k) == 0..(k - 1)

popcount64(word) == Cardinality(word)

\* ---------------------------------------------------------------- BitVector
\* A default-constructed BitVector.
BitVector_new == [nbits_ |-> 0, bits_ |-> <<>>, super_ |-> <<>>, blocks_ |-> <<>>]

\* Popcount of the bits [sub_start_bit, sub_end_bit) as the build loop takes it,
\* word by word with the low and the high trim.
SubBlockPop(words, sub_start_bit, sub_end_bit) ==
  LET word_start == sub_start_bit \div 64
      word_end == (sub_end_bit + 63) \div 64
      pop == [w \in word_start..(word_end - 1) |->
                LET word_bit_start == w * 64
                    word_bit_end == word_bit_start + 64
                    lowTrim == IF word_bit_start < sub_start_bit
                               THEN ShlOnes(sub_start_bit - word_bit_start)
                               ELSE 0..(WORD_BITS - 1)
                    highTrim == IF word_bit_end > sub_end_bit
                                THEN ShrOnes(word_bit_end - sub_end_bit)
                                ELSE 0..(WORD_BITS - 1)
                IN popcount64((At(words, w) \cap lowTrim) \cap highTrim)]
  IN SumFn(pop, word_start, word_end - 1)

\* The entries the rank-index loop pushes onto super_ and blocks_ for the
\* packed words and nbits: super_ gets the running (absolute) rank at every
\* super-block start, blocks_ the rank relative to the super-block start at
\* every sub-block start (a uint16_t).
RankIndex(words, nbits) ==
  LET SUPER == CS_SUPER_BLOCK_SIZE
      SUB == CS_SUB_BLOCK_SIZE
      num_subs == (nbits + SUB - 1) \div SUB
      num_supers == (nbits + SUPER - 1) \div SUPER
      subPop == [k \in 0..(num_subs - 1) |->
                   LET sub_start_bit == k * SUB
                       super_end_bit == Min(((k * SUB) \div SUPER) * SUPER + SUPER, nbits)
                       sub_end_bit == Min(sub_start_bit + SUB, super_end_bit)
                   IN SubBlockPop(words, sub_start_bit, sub_end_bit)]
      SUBS_PER_SUPER == SUPER \div SUB
  IN [super |-> [j \in 1..num_supers |->
                   SumFn(subPop, 0, (j - 1) * SUBS_PER_SUPER - 1)],
      blocks |-> [k \in 1..num_subs |->
                   SumFn(subPop, ((k - 1) \div SUBS_PER_SUPER) * SUBS_PER_SUPER, k - 2)
                     % 65536]]

\* BitVector::build_from_words on the object self: bits_ is the given words,
\* zero words added up to the words nbits needs; the rank entries are pushed
\* onto the super_ and blocks_ the object holds.
BitVector_resized(words, required_words) ==
  IF Len(words) < required_words
  THEN Vector(words \o [k \in 1..(required_words - Len(words)) |-> {}])
  ELSE words

\* A build_from_words that pushes no sub-block entries.
BitVector_indexed_NoSub(self, bits, nbits, index) ==
  [nbits_ |-> nbits, bits_ |-> bits,
   super_ |-> self.super_ \o index.super,
   blocks_ |-> self.blocks_]

BitVector_indexed(self, bits, nbits, index) ==
  [nbits_ |-> nbits, bits_ |-> bits,
   super_ |-> self.super_ \o index.super,
   blocks_ |-> self.blocks_ \o index.blocks]

BitVector_build_from_words(self, words, nbits) ==
  BitVector_indexed(self, BitVector_resized(words, (nbits + 63) \div 64), nbits,
                    RankIndex(BitVector_resized(words, (nbits + 63) \div 64), nbits))

\* BitVector::build on the object self: nbits_ and bits_ are replaced; the
\* rank entries are pushed onto the super_ and blocks_ the object holds
\* (they are cleared only on the empty input).
BitVector_build(self, bits) ==
  LET nbits == Len(bits)
      nwords == (nbits + 63) \div 64
      words == [w \in 1..nwords |->
                  {b \in 0..(WORD_BITS - 1) :
                     (w - 1) * 64 + b < nbits /\ At(bits, (w - 1) * 64 + b) # 0}]
      idx == RankIndex(words, nbits)
  IN IF nbits = 0
     THEN [nbits_ |-> 0, bits_ |-> <<>>, super_ |-> <<>>, blocks_ |-> <<>>]
     ELSE [nbits_ |-> nbits, bits_ |-> words,
           super_ |-> self.super_ \o idx.super,
           blocks_ |-> self.blocks_ \o idx.blocks]

BitVector_size(bv) == bv.nbits_

\* A count_ones that counts the last word whole.
BitVector_count_ones_Unmasked(bv) ==
  SumFn([w \in 0..(Len(bv.bits_) - 1) |-> popcount64(At(bv.bits_, w))],
        0, Len(bv.bits_) - 1)

\* BitVector::count_ones: every word, the last one masked to the valid bits.
BitVector_count_ones(bv) ==
  LET pop == [w \in 0..(Len(bv.bits_) - 1) |->
                IF (w + 1) * 64 > bv.nbits_
                THEN popcount64(At(bv.bits_, w) \cap LowMask(bv.nbits_ - w * 64))
                ELSE popcount64(At(bv.bits_, w))]
  IN SumFn(pop, 0, Len(bv.bits_) - 1)

\* Step 3 of rank1: the popcount of the bits [sub_start, i), taken word by
\* word from word_start up to last (word_end, or the last packed word), each
\* word masked below sub_start and from i on.
Rank1Words(bv, i, sub_start, word_start, last) ==
  SumFn([w \in word_start..last |->
           popcount64((At(bv.bits_, w)
                         \cap (IF w * 64 < sub_start
                               THEN ShlOnes(sub_start - w * 64)
                               ELSE 0..(WORD_BITS - 1)))
                         \cap (IF w * 64 + 64 > i /\ i - w * 64 < 64
                               THEN LowMask(i - w * 64)
                               ELSE 0..(WORD_BITS - 1)))],
        word_start, last)

\* rank1 once rank holds the super-block and the sub-block entry.
Rank1FromSub(bv, i, rank, sub_start) ==
  IF i = sub_start THEN rank
  ELSE rank + Rank1Words(bv, i, sub_start, sub_start \div 64,
                         Min((i - 1) \div 64, Len(bv.bits_) - 1))

\* A rank1 that reads the sub-block entry as an absolute rank.
Rank1AddBlock_Absolute(bv, rank, block_idx) ==
  IF block_idx < Len(bv.blocks_) THEN At(bv.blocks_, block_idx) ELSE rank

\* if (block_idx < blocks_.size()) rank += blocks_[block_idx];
Rank1AddBlock(bv, rank, block_idx) ==
  IF block_idx < Len(bv.blocks_) THEN rank + At(bv.blocks_, block_idx) ELSE rank

\* Step 2 of rank1: the sub-block sub_offset of the super-block super_idx.
Rank1FromSuper(bv, i, super_idx, super_start, sub_offset) ==
  Rank1FromSub(bv, i,
               Rank1AddBlock(bv, At(bv.super_, super_idx),
                             super_idx * (CS_SUPER_BLOCK_SIZE \div CS_SUB_BLOCK_SIZE)
                               + sub_offset),
               super_start + sub_offset * CS_SUB_BLOCK_SIZE)

\* Step 1 of rank1: the super-block super_idx of the position i.
Rank1InSuper(bv, i, super_idx) ==
  IF i - super_idx * CS_SUPER_BLOCK_SIZE = 0 THEN At(bv.super_, super_idx)
  ELSE Rank1FromSuper(bv, i, super_idx, super_idx * CS_SUPER_BLOCK_SIZE,
                      (i - super_idx * CS_SUPER_BLOCK_SIZE) \div CS_SUB_BLOCK_SIZE)

\* BitVector::rank1
BitVector_rank1(bv, i) ==
  IF i = 0 THEN 0
  ELSE IF i >= bv.nbits_ THEN BitVector_count_ones(bv)
  ELSE Rank1InSuper(bv, i, i \div CS_SUPER_BLOCK_SIZE)

\* A get that forgets the shift: bits_[i / 64] & 1.
BitVector_get_Unshifted(bv, i) ==
  IF i >= bv.nbits_ THEN 0
  ELSE IF 0 \in At(bv.bits_, i \div 64) THEN 1 ELSE 0

\* BitVector::get: (bits_[i / 64] >> (i % 64)) & 1, and 0 from nbits_ on.
BitVector_get(bv, i) ==
  IF i >= bv.nbits_ THEN 0
  ELSE IF (i % 64) \in At(bv.bits_, i \div 64) THEN 1 ELSE 0

\* BitVector::rank0: i is clamped to nbits_, then i - rank1(i).
BitVector_rank0_Clamped(bv, i) == i - BitVector_rank1(bv, i)

BitVector_rank0(bv, i) ==
  BitVector_rank0_Clamped(bv, IF i > bv.nbits_ THEN bv.nbits_ ELSE i)

\* --------------------------------------------------------------- WaveletTree
WaveletTree_new == [n_ |-> 0, levels_ |-> [l \in 1..8 |-> BitVector_new]]

\* (sym >> bit) & 1
BitOf(sym, bit) == (sym \div Pow2(bit)) % 2

\* The level loop of WaveletTree::build from level on, current being the
\* symbols entering that level: the level's bit line is built into
\* levels[level], then current becomes left ++ right.
RECURSIVE WaveletLevels(_, _, _)
WaveletLevels(levels, current, level) ==
  IF level > 7 THEN levels
  ELSE
    LET bit == 7 - level
        bitvec == [i \in 1..Len(current) |-> BitOf(current[i], bit)]
        left == SelectSeq(current, LAMBDA sym : BitOf(sym, bit) = 0)
        right == SelectSeq(current, LAMBDA sym : BitOf(sym, bit) = 1)
        built == [levels EXCEPT ![level + 1] = BitVector_build(levels[level + 1], bitvec)]
    IN WaveletLevels(built, IF bit > 0 THEN left \o right ELSE current, level + 1)

\* WaveletTree::build
WaveletTree_build(self, bwt) ==
  IF Len(bwt) = 0 THEN [self EXCEPT !.n_ = 0]
  ELSE [n_ |-> Len(bwt), levels_ |-> WaveletLevels(self.levels_, bwt, 0)]

\* A descent that forgets the zeros stored before the ones of a level.
WaveletChild_OnesFirst(bv, bit_val, zeros_total, p) ==
  IF bit_val = 0 THEN p - BitVector_rank1(bv, p)
  ELSE BitVector_rank1(bv, p)

\* The position p of a level mapped into the next level: the zeros before
\* p when the bit of c is 0, else all zeros of the level plus the ones
\* before p.
WaveletChild(bv, bit_val, zeros_total, p) ==
  IF bit_val = 0 THEN p - BitVector_rank1(bv, p)
  ELSE zeros_total + BitVector_rank1(bv, p)

\* The descent of WaveletTree::rank from level on with the range [start, end).
\* WaveletLevel is the body of the loop on the bit line bv of the level,
\* WaveletNarrowed its end with the range as the level has mapped it.
RECURSIVE WaveletDescend(_, _, _, _, _)
WaveletNarrowed(wt, c, level, start, end) ==
  IF start >= end THEN 0 ELSE WaveletDescend(wt, c, level + 1, start, end)

WaveletLevel(wt, c, level, start, end, bv, bit_val, zeros_total) ==
  WaveletNarrowed(wt, c, level,
                  WaveletChild(bv, bit_val, zeros_total, start),
                  WaveletChild(bv, bit_val, zeros_total, end))

WaveletDescend(wt, c, level, start, end) ==
  IF level > 7 THEN end - start
  ELSE WaveletLevel(wt, c, level, start, end,
                    wt.levels_[level + 1], BitOf(c, 7 - level),
                    BitVector_size(wt.levels_[level + 1])
                      - BitVector_rank1(wt.levels_[level + 1],
                                        BitVector_size(wt.levels_[level + 1])))

\* WaveletTree::rank
WaveletTree_rank(wt, c, i) ==
  IF i = 0 \/ i > wt.n_ THEN 0 ELSE WaveletDescend(wt, c, 0, 0, i)

\* The loop of WaveletTree::access from level on: the bit of the level at pos
\* is or-ed into symbol at its place (7 - level), and pos is mapped into the
\* next level.
RECURSIVE WaveletAccessFrom(_, _, _, _)
WaveletAccessLevel(wt, level, pos, symbol, bv, bit_val) ==
  WaveletAccessFrom(wt, level + 1,
                    WaveletChild(bv, bit_val,
                                 BitVector_size(bv) - BitVector_rank1(bv, BitVector_size(bv)),
                                 pos),
                    symbol + bit_val * Pow2(7 - level))

WaveletAccessFrom(wt, level, pos, symbol) ==
  IF level > 7 THEN symbol
  ELSE WaveletAccessLevel(wt, level, pos, symbol, wt.levels_[level + 1],
                          BitVector_get(wt.levels_[level + 1], pos))

\* WaveletTree::access past its assert(i < n_): 0 from n_ on.
WaveletTree_access(wt, i) ==
  IF i >= wt.n_ THEN 0 ELSE WaveletAccessFrom(wt, 0, i, 0)

\* ---------------------------------------------------------- BitvectorLearned
\* PgmModel::predict of the one fitted segment y = a * x + b, rounded to the
\* nearest integer; a is the fraction num / den >= 0 and b an integer.  A
\* model without a segment (segs = 0) predicts 0.
PgmModel_predict(pgm, x) ==
  IF pgm.segs = 0 THEN 0
  ELSE (2 * pgm.num * x + pgm.den) \div (2 * pgm.den) + pgm.b

BitvectorLearned_new ==
  [nbits_ |-> 0, S_ |-> 512, s_ |-> 32, bits_ |-> <<>>,
   pgm_ |-> [segs |-> 0, num |-> 0, den |-> 1, b |-> 0], residuals_ |-> <<>>]

\* The packed words of bits, LSB first.
PackBits(bits) ==
  [w \in 1..((Len(bits) + 63) \div 64) |->
     {b \in 0..(WORD_BITS - 1) :
        (w - 1) * 64 + b < Len(bits) /\ At(bits, (w - 1) * 64 + b) # 0}]

\* running_rank + local_rank of the residual loop when it is at the bit k:
\* the 1 bits it has passed.
OnesBefore(bits, k) == Cardinality({q \in 1..k : bits[q] # 0})

\* Residuals taken against the prediction for the start of the micro-block.
Residuals_AtMicro(bits, S, s, pgm) ==
  [r \in 1..(((Len(bits) + S - 1) \div S) * (S \div s)) |->
     IF ((r - 1) \div (S \div s)) * S + ((r - 1) % (S \div s)) * s >= Len(bits) THEN 0
     ELSE OnesBefore(bits, ((r - 1) \div (S \div s)) * S + ((r - 1) % (S \div s)) * s)
            - PgmModel_predict(pgm, ((r - 1) \div (S \div s)) * S
                                      + ((r - 1) % (S \div s)) * s)]

\* Step 4 of BitvectorLearned::build: for the micro-block m of the coarse
\* block j the rank at its start less the prediction for the start of the
\* coarse block; 0 for the micro-blocks that start past the end.
Residuals(bits, S, s, pgm) ==
  [r \in 1..(((Len(bits) + S - 1) \div S) * (S \div s)) |->
     IF ((r - 1) \div (S \div s)) * S + ((r - 1) % (S \div s)) * s >= Len(bits) THEN 0
     ELSE OnesBefore(bits, ((r - 1) \div (S \div s)) * S + ((r - 1) % (S \div s)) * s)
            - PgmModel_predict(pgm, ((r - 1) \div (S \div s)) * S)]

\* BitvectorLearned::build(bits, S, s) on the object self, fitted being the
\* model PgmModel::fit returns for the coarse samples.
BitvectorLearned_build(self, bits, S, s, fitted) ==
  IF Len(bits) = 0
  THEN [nbits_ |-> 0, S_ |-> S, s_ |-> s, bits_ |-> <<>>,
        pgm_ |-> BitvectorLearned_new.pgm_, residuals_ |-> <<>>]
  ELSE [nbits_ |-> Len(bits), S_ |-> S, s_ |-> s, bits_ |-> Vector(PackBits(bits)),
        pgm_ |-> fitted,
        residuals_ |-> IF s > 0 /\ S % s = 0 THEN Vector(Residuals(bits, S, s, fitted))
                       ELSE self.residuals_]

\* BitvectorLearned::rank1 inside the vector: the prediction for the coarse
\* block, the residual of the micro-block (if stored) and the popcount of
\* the bits [micro_start, i); the sum, 0 if negative.
LearnedRankAt(lb, i, coarse_idx, micro_idx) ==
  LET residual_idx == coarse_idx * (lb.S_ \div lb.s_) + micro_idx
      micro_start == coarse_idx * lb.S_ + micro_idx * lb.s_
      result ==
        PgmModel_predict(lb.pgm_, coarse_idx * lb.S_)
          + (IF Len(lb.residuals_) # 0 /\ lb.s_ > 0 /\ residual_idx < Len(lb.residuals_)
             THEN At(lb.residuals_, residual_idx) ELSE 0)
          + (IF i - micro_start > 0
             THEN Rank1Words(lb, i, micro_start, micro_start \div 64,
                             Min((i - 1) \div 64, Len(lb.bits_) - 1))
             ELSE 0)
  IN IF result < 0 THEN 0 ELSE result

\* BitvectorLearned::rank1
BitvectorLearned_rank1(lb, i) ==
  IF i = 0 THEN 0
  ELSE IF i >= lb.nbits_ THEN BitVector_count_ones(lb)
  ELSE LearnedRankAt(lb, i, i \div lb.S_, (i - (i \div lb.S_) * lb.S_) \div lb.s_)

\* ------------------------------------------------ IndexWriter, IndexReader
\* The width bytes of the unsigned value v in memory, lowest byte first, and
\* the value of such bytes.
RECURSIVE ToBytes(_, _)
ToBytes(v, width) ==
  IF width = 0 THEN <<>> ELSE <<v % 256>> \o ToBytes(v \div 256, width - 1)

RECURSIVE FromBytes(_)
FromBytes(bytes) ==
  IF Len(bytes) = 0 THEN 0 ELSE bytes[1] + 256 * FromBytes(Tail(bytes))

\* Byte k (from 0) of an element of width bytes as it lies in memory: a
\* 64-bit word is the set of its bits, a rank entry a number.
LittleEndian(x, width, k) ==
  IF width = 8
  THEN SumFn([b \in 0..7 |-> IF (8 * k + b) \in x THEN Pow2(b) ELSE 0], 0, 7)
  ELSE (x \div Pow2(8 * k)) % 256

\* The bytes of the array vec of elements of width bytes.
ArrayBytes(vec, width) ==
  [j \in 1..(Len(vec) * width) |->
     LittleEndian(vec[((j - 1) \div width) + 1], width, (j - 1) % width)]

\* "CSIDX" in the 8 bytes of IndexHeader::magic, as IndexHeader() sets them.
INDEX_MAGIC == <<67, 83, 73, 68, 88, 0, 0, 0>>

\* An IndexWriter as constructed on a path, with the file it writes: the
\* header is kept in header_ until finalize, body is the bytes of the file
\* from the offset sizeof(IndexHeader) on.  status is "open", "closed" after
\* finalize, "looping" while a call is in the padding loop of align_to,
\* "failed" when a write has thrown; padding is the local of that name of
\* the running align_to and padded the bytes its loop has written so far.
IndexWriter_new ==
  [status |-> "open", current_offset_ |-> HeaderSize, body |-> <<>>,
   padding |-> 0, padded |-> 0,
   header_ |-> [magic |-> INDEX_MAGIC, version |-> 1, flags |-> 0, text_len |-> 0,
                offsets |-> [k \in 1..8 |-> 0]]]

\* IndexWriter::align_to up to its loop: when the offset is no multiple of
\* the alignment the call enters the padding loop, and what follows it in
\* the caller is not reached before the loop ends.
IndexWriter_align_to(w, alignment) ==
  IF w.status = "open" /\ w.current_offset_ % alignment # 0
  THEN [w EXCEPT !.status = "looping", !.padded = 0,
                 !.padding = alignment - (w.current_offset_ % alignment)]
  ELSE w

\* One turn of the padding loop with written = 0, which no turn changes:
\* chunk = min(padding - written, sizeof(zeros)) zeros are written.
IndexWriter_pad(w) ==
  [w EXCEPT !.body = @ \o [k \in 1..Min(w.padding, 64) |-> 0],
            !.current_offset_ = @ + Min(w.padding, 64),
            !.padded = @ + Min(w.padding, 64)]

\* IndexWriter::write_raw of the bytes data, and header_.offsets[section] =
\* current_offset_; neither is reached by a call that loops.
IndexWriter_write_raw(w, data) ==
  IF w.status # "open" THEN w
  ELSE [w EXCEPT !.body = @ \o data, !.current_offset_ = @ + Len(data)]

IndexWriter_mark(w, section) ==
  IF w.status # "open" THEN w
  ELSE [w EXCEPT !.header_.offsets[section + 1] = w.current_offset_]

\* write_array<T>: the count as uint64_t, then the elements as they lie in
\* memory, width bytes each.
IndexWriter_write_array(w, vec, width) ==
  IndexWriter_write_raw(
    IndexWriter_write_raw(w, ToBytes(Len(vec), 8)),
    [j \in 1..(Len(vec) * width) |-> ToBytes(vec[((j - 1) \div width) + 1], width)[((j - 1) % width) + 1]])

\* IndexWriter::write_text (1), write_bwt (2), write_c_array (3),
\* write_ssa (4) and write_veb_layout (6) of the content vec.
IndexWriter_write(w, section, vec, stride) ==
  CASE section \in {1, 2} ->
         IndexWriter_write_array(IndexWriter_mark(IndexWriter_align_to(w, 8), section), vec, 1)
    [] section = 3 ->
         IndexWriter_write_array(IndexWriter_mark(IndexWriter_align_to(w, 8), section), vec, 4)
    [] section = 4 ->
         IndexWriter_write_array(
           IndexWriter_align_to(
             IndexWriter_write_raw(IndexWriter_mark(IndexWriter_align_to(w, 8), section),
                                   ToBytes(stride, 4)),
             8),
           vec, 4)
    [] section = 6 ->
         IF Len(vec) = 0 THEN [w EXCEPT !.header_.offsets[section + 1] = 0]
         ELSE IndexWriter_write_array(
                IndexWriter_mark(IndexWriter_align_to(w, VebAlignment), section), vec, 1)

\* IndexWriter::write_wavelet of the arrays of b: num_levels, then the
\* three arrays, each behind its count.
IndexWriter_write_wavelet(w, b, num_levels) ==
  IndexWriter_write_raw(
    IndexWriter_mark(IndexWriter_align_to(w, 8), 5),
    ToBytes(num_levels, 8)
      \o ToBytes(Len(b.bits_), 8) \o ArrayBytes(b.bits_, 8)
      \o ToBytes(Len(b.super_), 8) \o ArrayBytes(b.super_, 4)
      \o ToBytes(Len(b.blocks_), 8) \o ArrayBytes(b.blocks_, 2))

\* IndexWriter::finalize: the footer, then the header at the offset 0, then
\* the file is closed.
IndexWriter_closed(w) == IF w.status = "open" THEN [w EXCEPT !.status = "closed"] ELSE w

IndexWriter_finalize(w) ==
  IndexWriter_closed(
    IndexWriter_write_raw(IndexWriter_mark(IndexWriter_align_to(w, 8), 7),
                          <<0, 83, 67, 83, 69, 78, 68, 0>>))

\* IndexHeader::is_valid: memcmp of the first 5 bytes of magic, and the
\* version.
IndexHeader_is_valid_MagicOnly(h) == SubSeq(h.magic, 1, 5) = SubSeq(INDEX_MAGIC, 1, 5)

IndexHeader_is_valid(h) ==
  SubSeq(h.magic, 1, 5) = SubSeq(INDEX_MAGIC, 1, 5) /\ h.version = 1

\* The bytes [offset, offset + size) of the mapped file f, past the header.
Mapped(f, offset, size) ==
  SubSeq(f.body, offset - HeaderSize + 1, offset - HeaderSize + size)

\* IndexReader::read_array_at<T> on the mapped file f: nullptr for the
\* offset 0 or one past the file; else the count read at the offset and the
\* count elements the returned pointer points to, width bytes each.
IndexReader_read_array_at(f, offset, width) ==
  IF offset = 0 \/ offset >= HeaderSize + Len(f.body)
  THEN [null |-> TRUE, count |-> 0, content |-> <<>>, stride |-> 0]
  ELSE [null |-> FALSE,
        count |-> FromBytes(Mapped(f, offset, 8)),
        content |-> [k \in 1..FromBytes(Mapped(f, offset, 8)) |->
                       FromBytes(Mapped(f, offset + 8 + (k - 1) * width, width))],
        stride |-> 0]

\* IndexReader::get_text (1), get_bwt (2), get_c_array (3), get_ssa (4),
\* get_wavelet (5) and get_veb_layout (6).  For the wavelet section count is
\* the size reported, the distance to the vEB section, and content the
\* value of the 8 bytes the pointer returned points to.
IndexReader_get(f, section) ==
  CASE section \in {1, 2, 6} -> IndexReader_read_array_at(f, f.header_.offsets[section + 1], 1)
    [] section = 5 ->
         IF f.header_.offsets[6] = 0 \/ f.header_.offsets[6] >= HeaderSize + Len(f.body)
         THEN [null |-> TRUE, count |-> 0, content |-> <<>>, stride |-> 0]
         ELSE [null |-> FALSE,
               count |-> IF f.header_.offsets[7] > f.header_.offsets[6]
                         THEN f.header_.offsets[7] - f.header_.offsets[6] ELSE 0,
               content |-> <<FromBytes(Mapped(f, f.header_.offsets[6], 8))>>,
               stride |-> 0]
    [] section = 3 -> IndexReader_read_array_at(f, f.header_.offsets[section + 1], 4)
    [] section = 4 ->
         IF f.header_.offsets[section + 1] = 0
              \/ f.header_.offsets[section + 1] >= HeaderSize + Len(f.body)
         THEN [null |-> TRUE, count |-> 0, content |-> <<>>, stride |-> 0]
         ELSE [IndexReader_read_array_at(f, f.header_.offsets[section + 1] + 8, 4)
                 EXCEPT !.stride = FromBytes(Mapped(f, f.header_.offsets[section + 1], 4))]

\* --------------------------------------------------------------- VebLayout
\* A serialization that writes the sub-block ranks before the super-block
\* ranks.
VebLayout_serialize_bitvector_SubFirst(b) ==
  ToBytes(b.nbits_, 8) \o ArrayBytes(b.bits_, 8) \o ArrayBytes(b.blocks_, 2)
    \o ArrayBytes(b.super_, 4)

\* VebLayout::serialize_bitvector: what it appends to out.
VebLayout_serialize_bitvector(b) ==
  ToBytes(b.nbits_, 8) \o ArrayBytes(b.bits_, 8) \o ArrayBytes(b.super_, 4)
    \o ArrayBytes(b.blocks_, 2)

\* VebLayout::compute_veb_order
VebLayout_compute_veb_order(num_bottom_levels) ==
  IF num_bottom_levels = 0 THEN <<>>
  ELSE IF num_bottom_levels = 1 THEN <<0>>
  ELSE [i \in 1..(num_bottom_levels \div 2) |-> i - 1]
         \o [i \in 1..(num_bottom_levels - num_bottom_levels \div 2) |->
               num_bottom_levels \div 2 + i - 1]

\* A buffer that keeps growing without the padding to the macroblock.
VebPadded_Unpadded(data) == data

\* The buffer resized with zeros to the next multiple of the macroblock.
VebPadded(data) ==
  IF Len(data) % VEB_MACROBLOCK_SIZE # 0
  THEN Vector(data \o [k \in 1..(VEB_MACROBLOCK_SIZE - (Len(data) % VEB_MACROBLOCK_SIZE)) |-> 0])
  ELSE data

\* The two loops of VebLayout::build over the levels of order: a level
\* below top_k_ is appended where the buffer ends, a bottom level after the
\* padding to the macroblock.
RECURSIVE VebPlace(_, _, _)
VebPlace(self, levels, order) ==
  IF Len(order) = 0 THEN self
  ELSE VebPlace(
         [self EXCEPT
            !.level_offsets_[Head(order) + 1] =
               IF Head(order) < self.top_k_ THEN Len(self.packed_data_)
               ELSE Len(VebPadded(self.packed_data_)),
            !.packed_data_ =
               Vector((IF Head(order) < self.top_k_ THEN self.packed_data_
                       ELSE VebPadded(self.packed_data_))
                        \o VebLayout_serialize_bitvector(levels[Head(order) + 1]))],
         levels, Tail(order))

\* A VebLayout as default-constructed; num_levels_ and top_k_ are read by
\* no accessor before a build.
VebLayout_new == [packed_data_ |-> <<>>, level_offsets_ |-> <<>>, num_levels_ |-> 0, top_k_ |-> 0]

\* A build that leaves the final padding out.
VebLayout_padded(self) == [self EXCEPT !.packed_data_ = VebPadded(self.packed_data_)]

\* VebLayout::build
VebLayout_build(levels, num_levels, top_k) ==
  VebLayout_padded(
    VebPlace([packed_data_ |-> <<>>, level_offsets_ |-> [l \in 1..num_levels |-> 0],
              num_levels_ |-> num_levels, top_k_ |-> Min(top_k, num_levels)],
             levels,
             [l \in 1..Min(top_k, num_levels) |-> l - 1]
               \o [k \in 1..(num_levels - Min(top_k, num_levels)) |->
                     Min(top_k, num_levels)
                       + VebLayout_compute_veb_order(num_levels - Min(top_k, num_levels))[k]]))

\* VebLayout::get_level_offset
VebLayout_get_level_offset(self, level) ==
  IF level < Len(self.level_offsets_) THEN At(self.level_offsets_, level) ELSE 0

\* ------------------------------------------------------------ SA and BWT
\* T.substr(a) < T.substr(b): std::string compares byte by byte as unsigned
\* char, a proper prefix being the smaller.  Equal runs of 16 bytes are
\* skipped in one step; the first differing byte decides.
RECURSIVE SuffixLess(_, _, _)
SuffixLess(T, a, b) ==
  IF b >= Len(T) THEN FALSE
  ELSE IF a >= Len(T) THEN TRUE
  ELSE IF a + 16 <= Len(T) /\ b + 16 <= Len(T)
          /\ SubSeq(T, a + 1, a + 16) = SubSeq(T, b + 1, b + 16)
       THEN SuffixLess(T, a + 16, b + 16)
  ELSE IF At(T, a) < At(T, b) THEN TRUE
  ELSE IF At(T, a) > At(T, b) THEN FALSE
  ELSE SuffixLess(T, a + 1, b + 1)

\* The suffixes in sorted order, ranked holding the pair <<r, a>> for every
\* suffix a with exactly r smaller suffixes.
SortedBy(n, ranked) ==
  Vector([i \in 1..n |-> (CHOOSE pr \in ranked : pr[1] = i - 1)[2]])

\* build_sa_naive: 0..n-1 sorted by the suffix comparison.  The suffixes are
\* pairwise different, so the sorted order is unique: entry i is the suffix
\* that has exactly i smaller suffixes.
build_sa_naive(T) ==
  SortedBy(Len(T),
           {<<Cardinality({b \in 0..(Len(T) - 1) : SuffixLess(T, b, a)}), a>> :
              a \in 0..(Len(T) - 1)})

\* A BWT that takes the first byte of every suffix, not the byte before it.
build_bwt_from_sa_Unshifted(T, sa) ==
  Vector([i \in 1..Len(T) |-> At(T, sa[i])])

\* build_bwt_from_sa
build_bwt_from_sa(T, sa) ==
  Vector([i \in 1..Len(T) |-> IF sa[i] = 0 THEN At(T, Len(T) - 1) ELSE At(T, sa[i] - 1)])

\* ---------------------------------------------------------------- FMIndex
\* A C array whose entry c counts the BWT bytes up to and including c.
BuildC_Inclusive(bwt) ==
  [c1 \in 1..257 |-> Cardinality({i \in 1..Len(bwt) : bwt[i] <= c1 - 1})]

\* Step 3 of build_from_text: the 257-entry C array of the BWT.  freq[b]
\* counts the BWT bytes equal to b; the running sum cum stored into C_[c]
\* is freq[0] + ... + freq[c-1], the number of BWT bytes below c.
BuildC(bwt) ==
  [c1 \in 1..257 |-> Cardinality({i \in 1..Len(bwt) : bwt[i] < c1 - 1})]

\* A changed step 5: the number of samples rounded down, n / stride.
BuildSSA_RoundedDown(sa, stride) ==
  [stride |-> stride,
   samples |-> [k \in 1..(Len(sa) \div stride) |-> At(sa, (k - 1) * stride)]]

\* Step 5 of build_from_text: SA values at the BWT positions that are
\* multiples of the stride.
BuildSSA(sa, stride) ==
  [stride |-> stride,
   samples |-> [k \in 1..((Len(sa) + stride - 1) \div stride) |->
                  At(sa, (k - 1) * stride)]]

\* What build_from_text writes to std::cerr: its four ScopeTimer objects
\* print on destruction, last constructed first.
BuildDiagnostics ==
  <<"[TIMER] build_ssa", "[TIMER] build_wavelet", "[TIMER] build_bwt",
    "[TIMER] build_sa_naive">>

\* A default-constructed FMIndex (IndexMeta n = 0, SSA stride{32}).
FMIndex_new ==
  [text_ |-> <<>>, n |-> 0, sa_ |-> <<>>, bwt_ |-> <<>>, C_ |-> <<>>,
   wavelet_ |-> WaveletTree_new,
   ssa_ |-> [stride |-> DefaultStride, samples |-> <<>>]]

\* Steps 3 to 5 of build_from_text, sa and bwt being what steps 1 and 2 built.
BuildFromBWT(text, ssa_stride, sa, bwt) ==
  [text_ |-> text,
   n |-> Len(text),
   sa_ |-> sa,
   bwt_ |-> bwt,
   C_ |-> BuildC(bwt),
   wavelet_ |-> WaveletTree_build(WaveletTree_new, bwt),
   ssa_ |-> BuildSSA(sa, ssa_stride)]

\* Step 2 of build_from_text on the suffix array of step 1.
BuildFromSA(text, ssa_stride, sa) ==
  BuildFromBWT(text, ssa_stride, sa, build_bwt_from_sa(text, sa))

\* FMIndex::build_from_text
build_from_text(text, ssa_stride) ==
  BuildFromSA(text, ssa_stride, build_sa_naive(text))

\* FMIndex::occ
occ(ix, c, i) == WaveletTree_rank(ix.wavelet_, c, i)

\* A changed LF: the rank taken up to and including position i.
LF_Inclusive(ix, i) ==
  IF i >= Len(ix.bwt_) THEN 0
  ELSE At(ix.C_, At(ix.bwt_, i)) + occ(ix, At(ix.bwt_, i), i + 1)

\* FMIndex::LF
LF(ix, i) ==
  IF i >= Len(ix.bwt_) THEN 0
  ELSE At(ix.C_, At(ix.bwt_, i)) + occ(ix, At(ix.bwt_, i), i)

\* The backward-search loop shared by count and locate: the pattern bytes
\* pattern[k], pattern[k-1], ..., pattern[1] are applied to [sp, ep); empty
\* tells that the loop left through sp >= ep.  BackwardNarrowed takes the
\* range as the byte pattern[k] has mapped it.
RECURSIVE BackwardSearch(_, _, _, _, _)
BackwardNarrowed(ix, pattern, k, sp, ep) ==
  IF sp >= ep THEN [empty |-> TRUE, sp |-> sp, ep |-> ep]
  ELSE BackwardSearch(ix, pattern, k - 1, sp, ep)

BackwardSearch(ix, pattern, k, sp, ep) ==
  IF k = 0 THEN [empty |-> FALSE, sp |-> sp, ep |-> ep]
  ELSE BackwardNarrowed(ix, pattern, k,
                        At(ix.C_, pattern[k]) + occ(ix, pattern[k], sp),
                        At(ix.C_, pattern[k]) + occ(ix, pattern[k], ep))

\* return ep - sp, or 0 when the loop left through sp >= ep
CountOfRange(r) == IF r.empty THEN 0 ELSE r.ep - r.sp

\* A changed count: the empty pattern counts 0.
FMIndex_count_EmptyIsZero(ix, pattern) ==
  IF Len(pattern) = 0 \/ ix.n = 0 THEN 0
  ELSE CountOfRange(BackwardSearch(ix, pattern, Len(pattern), 0, ix.n))

\* FMIndex::count
FMIndex_count(ix, pattern) ==
  IF Len(pattern) = 0 THEN ix.n
  ELSE IF ix.n = 0 THEN 0
  ELSE CountOfRange(BackwardSearch(ix, pattern, Len(pattern), 0, ix.n))

\* One pass of the LF-walk loop of locate on the pair w = (bwt_pos, steps):
\* if bwt_pos is no multiple of the stride and steps < n, bwt_pos =
\* LF(bwt_pos) and ++steps; otherwise the loop has ended and w stays.
LFStep(ix, w) ==
  IF w.bwt_pos % ix.ssa_.stride # 0 /\ w.steps < ix.n
  THEN [bwt_pos |-> LF(ix, w.bwt_pos), steps |-> w.steps + 1]
  ELSE w

LFStep4(ix, w) == LFStep(ix, LFStep(ix, LFStep(ix, LFStep(ix, w))))

\* The LF walk of locate, the loop taken four passes at a time.
RECURSIVE LFWalkFrom(_, _)
LFWalkFrom(ix, w) ==
  IF w.bwt_pos % ix.ssa_.stride # 0 /\ w.steps < ix.n
  THEN LFWalkFrom(ix, LFStep4(ix, w))
  ELSE w

LFWalk(ix, bwt_pos, steps) == LFWalkFrom(ix, [bwt_pos |-> bwt_pos, steps |-> steps])

\* The row loop of locate from row i on; a throw ends it and drops the
\* positions collected so far.  LocateRow is the body of the loop after the
\* LF walk of row i has ended in w.  thrown is the message of the exception,
\* the second one without its "idx=..., size=..." tail.
RECURSIVE LocateRows(_, _, _, _, _)
LocateRow(ix, i, ep, limit, positions, w) ==
  IF w.steps >= ix.n
  THEN [thrown |-> "locate: LF walk exceeded text length", positions |-> <<>>]
  ELSE IF w.bwt_pos \div ix.ssa_.stride >= Len(ix.ssa_.samples)
  THEN [thrown |-> "locate: SSA sample index out of range", positions |-> <<>>]
  ELSE LocateRows(ix, i + 1, ep, limit,
                  Append(positions,
                         (At(ix.ssa_.samples, w.bwt_pos \div ix.ssa_.stride) + w.steps)
                           % ix.n))

LocateRows(ix, i, ep, limit, positions) ==
  IF ~(i < ep /\ Len(positions) < limit)
  THEN [thrown |-> "", positions |-> positions]
  ELSE LocateRow(ix, i, ep, limit, positions, LFWalk(ix, i, 0))

\* locate after the backward search has ended with the range r
LocateRange(ix, limit, r) ==
  IF r.empty THEN [thrown |-> "", positions |-> <<>>]
  ELSE LocateRows(ix, r.sp, r.ep, limit, <<>>)

\* FMIndex::locate
FMIndex_locate(ix, pattern, limit) ==
  IF Len(pattern) = 0 \/ ix.n = 0 THEN [thrown |-> "", positions |-> <<>>]
  ELSE LocateRange(ix, limit, BackwardSearch(ix, pattern, Len(pattern), 0, ix.n))

\* A changed extract: the end p + len is computed in the unsigned word (of
\* U64Bits bits here) and then cut to n.
FMIndex_extract_WrappedEnd(ix, p, len) ==
  IF p >= Len(ix.text_) THEN <<>>
  ELSE SubSeq(ix.text_, p + 1, Min((p + len) % (2 ^ U64Bits), Len(ix.text_)))

\* FMIndex::extract; p and len are unsigned and never added.
FMIndex_extract(ix, p, len) ==
  IF p >= Len(ix.text_) THEN <<>>
  ELSE SubSeq(ix.text_, p + 1, p + Min(len, Len(ix.text_) - p))

\* ------------------------------------------------------------------ inputs
\* Bytes of the enumerated texts and patterns: '$', 'a', 'b'.
Alphabet == {Dollar, 97, 98}

SeqsUpTo(S, n) == UNION {[1..k -> S] : k \in 0..n}

\* "banana$", "abababab$", "aabaabaa$" (README, fm_search_tests.cpp)
Banana == <<98, 97, 110, 97, 110, 97, 36>>
Abababab == <<97, 98, 97, 98, 97, 98, 97, 98, 36>>
Aabaabaa == <<97, 97, 98, 97, 97, 98, 97, 97, 36>>
ScenarioTexts == {Banana, Abababab, Aabaabaa}

\* "ana", "banana", "x", "aba", "aab"
Ana == <<97, 110, 97>>
ScenarioPatterns == {Ana, <<98, 97, 110, 97, 110, 97>>, <<120>>, <<97, 98, 97>>, <<97, 97, 98>>}

Texts == SeqsUpTo(Alphabet, MaxLen) \cup ScenarioTexts
Patterns == SeqsUpTo(Alphabet, MaxPat) \cup ScenarioPatterns
Strides == (1..MaxStride) \cup {DefaultStride}
Limits == (0..MaxLimit) \cup {DefaultLimit}

\* The scaled uint64_t range of extract's arguments and the values tried.
U64Max == Pow2(U64Bits) - 1
ExtractPos == {0, 1, 2, MaxLen, U64Max}
ExtractLen == {0, 1, 2, U64Max - 1, U64Max}

\* test_full_alphabet / scenario S4: k copies of the bytes 1..255, then '$'.
FullAlphabetText(k) == [i \in 1..(255 * k + 1) |->
                          IF i = 255 * k + 1 THEN Dollar ELSE ((i - 1) % 255) + 1]

\* ------------------------------------------------------------------- state
VARIABLES
  phase,    \* "Unbuilt" before build_from_text has returned, "Ready" after
  idx,      \* the FMIndex object
  stderr_,  \* the lines written to std::cerr
  call,     \* the query being answered, [op |-> "none"] between queries
  ret,      \* what the query returned (NoRet between queries)
  wt,       \* a WaveletTree object of its own
  bv,       \* a BitVector object of its own
  lbv,      \* a BitvectorLearned object of its own
  file,     \* an IndexWriter and the container file it writes
  reader,   \* an IndexReader on that file and what its last accessor returned
  given,    \* what the objects besides the FMIndex were built from
  probe,    \* the query made on such an object and its result
  veb,      \* a VebLayout object
  cli       \* a run of the build command

vars == <<phase, idx, stderr_, call, ret, wt, bv, lbv, file, reader, given, probe, veb, cli>>

\* The objects besides the FMIndex and its queries.
units == <<wt, bv, lbv, file, reader, given, probe, veb, cli>>

\* The FMIndex and its queries.
driver == <<phase, idx, stderr_, call, ret>>

\* how tells the way bv or lbv was built ("" before, then "bits", "words"
\* or "learned"), bits
\* the bits it was built from, ref a second BitVector on which build(bits)
\* was called.
NotGiven == [wtBuilt |-> FALSE, B |-> <<>>, how |-> "", bits |-> <<>>,
             ref |-> BitVector_new,
             headed |-> FALSE, flags |-> 0, text_len |-> 0,
             section |-> 0, content |-> <<>>, stride |-> 0,
             levels |-> <<>>, laid |-> FALSE, num_levels |-> 0, again |-> FALSE]

\* No reader is open; got is the section last asked for, result what the
\* accessor returned.
NoReader ==
  [open |-> FALSE, mapped |-> FALSE, thrown |-> "", flags |-> 0, text_len |-> 0, got |-> 0,
   result |-> [null |-> TRUE, count |-> 0, content |-> <<>>, stride |-> 0]]

\* The build command has not been started: pc is the position of the
\* process, stdin the lines not yet read (newline: the last one ends with a
\* newline), good the state of std::cin, pattern the string of the query
\* loop, code the exit code.
NoCli ==
  [pc |-> "idle", stdin |-> <<>>, newline |-> TRUE, good |-> TRUE, pattern |-> <<>>,
   count |-> 0, code |-> -1]

NoProbe == [op |-> "none", c |-> 0, i |-> 0, value |-> 0, aborted |-> FALSE]

NoCall == [op |-> "none"]

\* The result slot: count's number, locate's positions or the message of
\* the exception it threw, extract's bytes.
NoRet == [count |-> 0, thrown |-> "", positions |-> <<>>, bytes |-> <<>>]

\* The result slot after locate has returned or thrown r.
LocateRet(r) == [NoRet EXCEPT !.thrown = r.thrown, !.positions = r.positions]

Init ==
  /\ phase = "Unbuilt"
  /\ idx = FMIndex_new
  /\ stderr_ = <<>>
  /\ call = NoCall
  /\ ret = NoRet
  /\ wt = WaveletTree_new
  /\ bv = BitVector_new
  /\ lbv = BitvectorLearned_new
  /\ file = IndexWriter_new
  /\ reader = NoReader
  /\ given = NotGiven
  /\ probe = NoProbe
  /\ veb = VebLayout_new
  /\ cli = NoCli

\* FMIndex::build_from_text(text, {ssa_stride = d}) returns the index.
Build(T, d) ==
  /\ phase = "Unbuilt"
  /\ phase' = "Ready"
  /\ idx' = build_from_text(T, d)
  /\ stderr_' = stderr_ \o BuildDiagnostics
  /\ UNCHANGED <<call, ret>>
  /\ UNCHANGED units

\* idx.count(pattern)
Count(pattern) ==
  /\ phase = "Ready" /\ call = NoCall
  /\ call' = [op |-> "count", pattern |-> pattern]
  /\ ret' = [NoRet EXCEPT !.count = FMIndex_count(idx, pattern)]
  /\ UNCHANGED <<phase, idx, stderr_>>
  /\ UNCHANGED units

\* idx.locate(pattern, limit)
Locate(pattern, limit) ==
  /\ phase = "Ready" /\ call = NoCall
  /\ call' = [op |-> "locate", pattern |-> pattern, limit |-> limit]
  /\ ret' = LocateRet(FMIndex_locate(idx, pattern, limit))
  /\ UNCHANGED <<phase, idx, stderr_>>
  /\ UNCHANGED units

\* idx.extract(p, len)
Extract(p, len) ==
  /\ phase = "Ready" /\ call = NoCall
  /\ call' = [op |-> "extract", p |-> p, len |-> len]
  /\ ret' = [NoRet EXCEPT !.bytes = FMIndex_extract(idx, p, len)]
  /\ UNCHANGED <<phase, idx, stderr_>>
  /\ UNCHANGED units

\* The caller takes the result; the index is ready for the next query.
Return ==
  /\ call # NoCall
  /\ call' = NoCall
  /\ ret' = NoRet
  /\ UNCHANGED <<phase, idx, stderr_>>
  /\ UNCHANGED units

\* FMIndex::open_directory(dir): whatever the directory holds, the call
\* throws std::runtime_error; no index is returned.
OpenDirectory ==
  /\ call = NoCall
  /\ call' = [op |-> "open_directory"]
  /\ ret' = [NoRet EXCEPT !.thrown = "on-disk open not implemented yet"]
  /\ UNCHANGED <<phase, idx, stderr_>>
  /\ UNCHANGED units

BuildAny == \E T \in Texts, d \in Strides : Build(T, d)
CountAny == \E p \in Patterns : Count(p)
LocateAny == \E p \in Patterns, L \in Limits : Locate(p, L)
ExtractAny == \E p \in ExtractPos, len \in ExtractLen : Extract(p, len)

Next == BuildAny \/ CountAny \/ LocateAny \/ ExtractAny \/ OpenDirectory \/ Return

Spec == Init /\ [][Next]_vars

\* The full-alphabet test: the index over FullAlphabetText(k) with default
\* parameters, queried with every one-byte pattern.
BuildFull == \E k \in 1..MaxCopies : Build(FullAlphabetText(k), DefaultStride)
CountByte == \E c \in 1..255 : Count(<<c>>)
LocateByte == \E c \in 1..255 : Locate(<<c>>, DefaultLimit)

NextFull == BuildFull \/ CountByte \/ LocateByte \/ Return

SpecFull == Init /\ [][NextFull]_vars

\* ------------------------------------------------- the WaveletTree alone
\* Bytes of the enumerated sequences: they differ in the lowest bit (0, 1),
\* in the two lowest bits (97, 98) and in the highest bit (255).
WTBytes == {0, 1, 97, 98, 255}
\* Symbols asked for besides: bytes no enumerated sequence holds, and the
\* bytes of the test sequences.
WTSymbols == WTBytes \cup {42, 254, Dollar, 110, 122}

\* wavelet_tests.cpp: the bytes 0..255 twice, and 'z' 1000 times.
AlphabetTwice == [i \in 1..512 |-> (i - 1) % 256]
AllSame == [i \in 1..1000 |-> 122]

\* The enumerated sequences and the test sequences.
WTSequences ==
  SeqsUpTo(WTBytes, MaxSeq) \cup {AlphabetTwice, AllSame, Banana, <<0, 255, 0, 255>>}

\* Positions asked for: every position of a short sequence, and the
\* positions the tests probe in the long ones; up to MaxOver past the end.
WTPositions(n) ==
  {i \in (0..(MaxSeq + MaxOver + 4)) \cup {255, 256, 257, 500, 511, 512, 513, 999}
                                     \cup ((n - 1)..(n + MaxOver)) :
     0 <= i /\ i <= n + MaxOver}

\* wt.build(B) on the tree as constructed.
WTBuild(B) ==
  /\ ~given.wtBuilt
  /\ probe = NoProbe
  /\ wt' = WaveletTree_build(wt, Vector(B))
  /\ given' = [given EXCEPT !.wtBuilt = TRUE, !.B = B]
  /\ UNCHANGED <<bv, lbv, file, reader, probe, veb, cli>>
  /\ UNCHANGED driver

\* wt.rank(c, i)
WTRank(c, i) ==
  /\ probe = NoProbe
  /\ probe' = [NoProbe EXCEPT !.op = "rank", !.c = c, !.i = i,
                              !.value = WaveletTree_rank(wt, c, i)]
  /\ UNCHANGED <<wt, bv, lbv, file, reader, given, veb, cli>>
  /\ UNCHANGED driver

\* wt.access(i): assert(i < n_) aborts the call when assertions are compiled
\* in; with NDEBUG the call goes on to its result.
WTAccess(i, ndebug) ==
  /\ probe = NoProbe
  /\ probe' = IF i >= wt.n_ /\ ~ndebug
              THEN [NoProbe EXCEPT !.op = "access", !.i = i, !.aborted = TRUE]
              ELSE [NoProbe EXCEPT !.op = "access", !.i = i,
                                   !.value = WaveletTree_access(wt, i)]
  /\ UNCHANGED <<wt, bv, lbv, file, reader, given, veb, cli>>
  /\ UNCHANGED driver

\* The caller takes the result (an aborted process takes nothing).
WTReturn ==
  /\ probe.op \in {"rank", "access"}
  /\ ~probe.aborted
  /\ probe' = NoProbe
  /\ UNCHANGED <<wt, bv, lbv, file, reader, given, veb, cli>>
  /\ UNCHANGED driver

\* Every symbol is asked for at the positions 256 and 512, the symbols of
\* WTSymbols at every position.
NextWT ==
  \/ \E B \in WTSequences : WTBuild(B)
  \/ \E i \in WTPositions(wt.n_) :
       \E c \in (IF i \in {256, 512} THEN 0..255 ELSE WTSymbols) : WTRank(c, i)
  \/ \E i \in WTPositions(wt.n_), ndebug \in BOOLEAN : WTAccess(i, ndebug)
  \/ WTReturn

SpecWT == Init /\ [][NextWT]_vars

\* --------------------------------------------------- the BitVector alone
\* Bit k of the bit stream p: a non-empty p is repeated for ever; the empty
\* p stands for the stream without a period whose bit k is (k * k / 7) % 2.
StreamBit(p, k) ==
  IF Len(p) = 0 THEN ((k * k) \div 7) % 2 ELSE p[(k % Len(p)) + 1]

\* The first n bits of the stream p, one per byte, and its first m words.
StreamBits(p, n) == [k \in 1..n |-> StreamBit(p, k - 1)]
StreamWords(p, m) ==
  [w \in 1..m |-> {b \in 0..(WORD_BITS - 1) : StreamBit(p, (w - 1) * 64 + b) = 1}]

BVStreams == SeqsUpTo({0, 1}, MaxPeriod)

\* Every length up to MaxBits, and the lengths about a word, a sub-block,
\* a super-block and two super-blocks.
BVLengths ==
  (0..MaxBits) \cup {63, 64, 65, 255, 256, 257,
                     CS_SUPER_BLOCK_SIZE - 1, CS_SUPER_BLOCK_SIZE, CS_SUPER_BLOCK_SIZE + 1,
                     2 * CS_SUPER_BLOCK_SIZE + 1}

\* Positions asked for: every position of a short vector, the block and word
\* boundaries of a long one and their neighbours, up to MaxOver past the end.
BVPositions(n) ==
  {i \in (0..(MaxBits + MaxOver)) \cup ((n - 1)..(n + MaxOver))
          \cup {k * 32 + d : k \in {1, 2, 3, 4, 8, 10, 16, 32, 62, 64, 66, 72, 128},
                             d \in {-1, 0, 1}} :
     0 <= i /\ i <= n + MaxOver}

\* bv.build(bits) on the vector as constructed.
BVBuild(p, n) ==
  /\ given.how = ""
  /\ probe = NoProbe
  /\ bv' = BitVector_build(bv, Vector(StreamBits(p, n)))
  /\ given' = [given EXCEPT !.how = "bits", !.bits = StreamBits(p, n), !.ref = bv']
  /\ UNCHANGED <<wt, lbv, file, reader, probe, veb, cli>>
  /\ UNCHANGED driver

\* The nbits bits unpacked from m words of the stream p, LSB first, missing
\* words being zero.
Unpacked(p, m, nbits) ==
  Vector(StreamBits(p, Min(nbits, 64 * m)) \o [k \in 1..(nbits - 64 * m) |-> 0])

\* bv.build_from_words(words, nbits) on the vector as constructed, words
\* being the first m words of a stream: the last word goes on past nbits.
BVBuildFromWords(p, m, nbits) ==
  /\ given.how = ""
  /\ probe = NoProbe
  /\ bv' = BitVector_build_from_words(bv, Vector(StreamWords(p, m)), nbits)
  /\ given' = [given EXCEPT !.how = "words",
                            !.bits = Unpacked(p, m, nbits),
                            !.ref = BitVector_build(BitVector_new, Unpacked(p, m, nbits))]
  /\ UNCHANGED <<wt, lbv, file, reader, probe, veb, cli>>
  /\ UNCHANGED driver

\* The queries of a BitVector.
BitVector_query(self, op, i) ==
  CASE op = "rank1" -> BitVector_rank1(self, i)
    [] op = "rank0" -> BitVector_rank0(self, i)
    [] op = "get" -> BitVector_get(self, i)
    [] op = "count_ones" -> BitVector_count_ones(self)
    [] op = "size" -> BitVector_size(self)

BVQuery(op, i) ==
  /\ probe = NoProbe
  /\ probe' = [NoProbe EXCEPT !.op = op, !.i = i, !.value = BitVector_query(bv, op, i)]
  /\ UNCHANGED <<wt, bv, lbv, file, reader, given, veb, cli>>
  /\ UNCHANGED driver

\* The caller takes the result of a BitVector or BitvectorLearned query.
BVReturn ==
  /\ probe.op \in {"rank1", "rank0", "get", "count_ones", "size", "learned_rank1"}
  /\ probe' = NoProbe
  /\ UNCHANGED <<wt, bv, lbv, file, reader, given, veb, cli>>
  /\ UNCHANGED driver

NextBV ==
  \/ \E p \in BVStreams, n \in BVLengths : BVBuild(p, n)
  \/ \E p \in BVStreams, n \in BVLengths :
       \E m \in {k \in {(n + 63) \div 64 - 1, (n + 63) \div 64} : k >= 0} :
         BVBuildFromWords(p, m, n)
  \/ \E i \in BVPositions(bv.nbits_) : \E op \in {"rank1", "rank0", "get"} : BVQuery(op, i)
  \/ \E op \in {"count_ones", "size"} : BVQuery(op, 0)
  \/ BVReturn

SpecBV == Init /\ [][NextBV]_vars

\* --------------------------------------------------------- building again
\* bv.build(bits), or bv.build_from_words of the same bits packed, on a
\* vector that was built before.
BVAgain(p, n, words) ==
  /\ given.how # ""
  /\ ~given.again
  /\ probe = NoProbe
  /\ bv' = IF words
           THEN BitVector_build_from_words(bv, Vector(StreamWords(p, (n + 63) \div 64)), n)
           ELSE BitVector_build(bv, Vector(StreamBits(p, n)))
  /\ given' = [given EXCEPT !.again = TRUE, !.bits = StreamBits(p, n),
                            !.ref = BitVector_build(BitVector_new, Vector(StreamBits(p, n)))]
  /\ UNCHANGED <<wt, lbv, file, reader, probe, veb, cli>>
  /\ UNCHANGED driver

\* wt.build(B) on a tree that was built before.
WTAgain(B) ==
  /\ given.wtBuilt
  /\ ~given.again
  /\ probe = NoProbe
  /\ wt' = WaveletTree_build(wt, Vector(B))
  /\ given' = [given EXCEPT !.again = TRUE, !.B = B]
  /\ UNCHANGED <<bv, lbv, file, reader, probe, veb, cli>>
  /\ UNCHANGED driver

\* One object, a BitVector or a WaveletTree, is built, built again and
\* queried.
NextRebuild ==
  \/ \E n \in {0, MaxBits, 300, CS_SUPER_BLOCK_SIZE + 1} :
       ~given.wtBuilt /\ BVBuild(<<1>>, n)
  \/ \E p \in {<<0>>, <<1, 0>>}, n \in {0, MaxBits - 1, 300, CS_SUPER_BLOCK_SIZE + 1} :
       \E words \in BOOLEAN : BVAgain(p, n, words)
  \/ \E i \in BVPositions(bv.nbits_) : \E op \in {"rank1", "rank0", "get"} :
       given.how # "" /\ BVQuery(op, i)
  \/ \E op \in {"count_ones", "size"} : given.how # "" /\ BVQuery(op, 0)
  \/ BVReturn
  \/ \E B \in {<<>>, Banana, AlphabetTwice} : given.how = "" /\ WTBuild(B)
  \/ \E B \in {<<>>, Ana, [k \in 1..300 |-> 97 + (k % 2)]} : WTAgain(B)
  \/ \E i \in WTPositions(wt.n_), c \in WTSymbols : given.wtBuilt /\ WTRank(c, i)
  \/ WTReturn

SpecRebuild == Init /\ [][NextRebuild]_vars

\* -------------------------------------------- the BitvectorLearned alone
\* Models PgmModel::fit may return: lines of slope 0, 1/2 and 1 that lie
\* below, on and far above the ranks.
LFitted ==
  {[segs |-> 1, num |-> 0, den |-> 1, b |-> 0],
   [segs |-> 1, num |-> 1, den |-> 2, b |-> -2],
   [segs |-> 1, num |-> 1, den |-> 1, b |-> 1000]}

\* The default strides, those of the tests, and small ones: S is s or 2 * s.
LStrides ==
  {<<512, 32>>, <<256, 16>>} \cup {<<k * s, s>> : s \in 1..MaxMicro, k \in {1, 2}}

\* Short vectors for the small strides; vectors of about a micro-block, a
\* coarse block and two coarse blocks for the others.
LLengths(S) ==
  IF S < 256 THEN 0..(MaxBits + 3) ELSE {1, 31, 32, 33, S - 1, S, S + 1, 2 * S + 1}

\* learned.build(bits, S, s) on the vector as constructed; classic.build(bits)
\* on a BitVector besides (test_vs_classic_bitvector).
LBuild(p, n, S, s, fitted) ==
  /\ given.how = ""
  /\ probe = NoProbe
  /\ lbv' = BitvectorLearned_build(lbv, Vector(StreamBits(p, n)), S, s, fitted)
  /\ given' = [given EXCEPT !.how = "learned", !.bits = StreamBits(p, n),
                            !.ref = BitVector_build(BitVector_new, Vector(StreamBits(p, n)))]
  /\ UNCHANGED <<wt, bv, file, reader, probe, veb, cli>>
  /\ UNCHANGED driver

\* learned.rank1(i)
LRank1(i) ==
  /\ probe = NoProbe
  /\ probe' = [NoProbe EXCEPT !.op = "learned_rank1", !.i = i,
                              !.value = BitvectorLearned_rank1(lbv, i)]
  /\ UNCHANGED <<wt, bv, lbv, file, reader, given, veb, cli>>
  /\ UNCHANGED driver

NextLearned ==
  \/ \E p \in BVStreams, Ss \in LStrides, fitted \in LFitted :
       \E n \in LLengths(Ss[1]) : LBuild(p, n, Ss[1], Ss[2], fitted)
  \/ \E i \in BVPositions(lbv.nbits_) : LRank1(i)
  \/ BVReturn

SpecLearned == Init /\ [][NextLearned]_vars

\* ----------------------------------------------------- the container file
\* Contents of a section: every short one, the contents of the tests and
\* runs of 7, 8, 9 and 16 elements; bytes for the sections 1, 2 and 6,
\* uint32_t values for 3 and 4.
SectionContents(section) ==
  IF section \in {3, 4}
  THEN SeqsUpTo({0, 66000}, MaxContent)
         \cup {<<0, 32, 64, 96, 128>>, BuildC(Banana)}
         \cup {[i \in 1..n |-> 70000 * i] : n \in {7, 8, 9, 16}}
  ELSE SeqsUpTo({0, 97, 255}, MaxContent)
         \cup {Banana, <<104, 101, 108, 108, 111, 32, 119, 111, 114, 108, 100, 36>>}
         \cup {[i \in 1..n |-> (37 * i) % 256] : n \in {7, 8, 9, 16}}

\* writer.write_header(flags, text_len), the first call of every test.
CWriteHeader(flags, text_len) ==
  /\ file.status = "open"
  /\ ~given.headed
  /\ file' = [file EXCEPT !.header_.flags = flags, !.header_.text_len = text_len,
                          !.header_.offsets[1] = 0]
  /\ given' = [given EXCEPT !.headed = TRUE, !.flags = flags, !.text_len = text_len]
  /\ UNCHANGED <<wt, bv, lbv, reader, probe, veb, cli>>
  /\ UNCHANGED driver

\* writer.write_wavelet(bits, super, sub, num_levels) as the first section.
CWriteWavelet(b, num_levels) ==
  /\ file.status = "open"
  /\ given.headed
  /\ given.section = 0
  /\ file' = IndexWriter_write_wavelet(file, b, num_levels)
  /\ given' = [given EXCEPT !.section = 5, !.num_levels = num_levels]
  /\ UNCHANGED <<wt, bv, lbv, reader, probe, veb, cli>>
  /\ UNCHANGED driver

\* The padding loop takes one more turn while the disk has room.
CPad ==
  /\ file.status = "looping"
  /\ file.padded < MaxChunks * Min(file.padding, 64)
  /\ file' = IndexWriter_pad(file)
  /\ UNCHANGED <<wt, bv, lbv, reader, given, probe, veb, cli>>
  /\ UNCHANGED driver

\* The write call of a section, the first one of the file or the one after
\* the wavelet section.
CWrite(section, vec, stride) ==
  /\ file.status = "open"
  /\ given.headed
  /\ given.section \in {0, 5}
  /\ file' = IndexWriter_write(file, section, Vector(vec), stride)
  /\ given' = [given EXCEPT !.section = section, !.content = vec, !.stride = stride]
  /\ UNCHANGED <<wt, bv, lbv, reader, probe, veb, cli>>
  /\ UNCHANGED driver

\* writer.finalize()
CFinalize ==
  /\ file.status = "open"
  /\ given.headed
  /\ file' = IndexWriter_finalize(file)
  /\ UNCHANGED <<wt, bv, lbv, reader, given, probe, veb, cli>>
  /\ UNCHANGED driver

\* The disk is full: the write_raw of the padding loop throws
\* std::runtime_error("Write failed") out of the call.
CWriteFails ==
  /\ file.status = "looping"
  /\ file' = [file EXCEPT !.status = "failed"]
  /\ UNCHANGED <<wt, bv, lbv, reader, given, probe, veb, cli>>
  /\ UNCHANGED driver

\* IndexReader::IndexReader on the file f of current_offset_ bytes: mmap of
\* an empty file fails; a file shorter than the header or with an invalid
\* header is unmapped again and the constructor throws.
IndexReader_new(f) ==
  IF f.current_offset_ = 0 THEN [NoReader EXCEPT !.thrown = "Failed to mmap file"]
  ELSE IF f.current_offset_ < HeaderSize
    THEN [NoReader EXCEPT !.thrown = "File too small to contain header"]
  ELSE IF ~IndexHeader_is_valid(f.header_)
    THEN [NoReader EXCEPT !.thrown = "Invalid index file: bad magic or version"]
  ELSE [NoReader EXCEPT !.open = TRUE, !.mapped = TRUE, !.flags = f.header_.flags,
                        !.text_len = f.header_.text_len]

\* A file of size bytes that no IndexWriter of this run has written, with
\* the magic and version given and no section.
CForeign(size, magic, version) ==
  /\ file.status = "open"
  /\ ~given.headed
  /\ file' = [IndexWriter_new EXCEPT !.status = "foreign", !.current_offset_ = size,
                                     !.header_.magic = magic, !.header_.version = version]
  /\ UNCHANGED <<wt, bv, lbv, reader, given, probe, veb, cli>>
  /\ UNCHANGED driver

\* IndexReader reader(path) on the finalized file or on a foreign one.
COpen ==
  /\ file.status \in {"closed", "foreign"}
  /\ ~reader.open
  /\ reader.thrown = ""
  /\ reader' = IndexReader_new(file)
  /\ UNCHANGED <<wt, bv, lbv, file, given, probe, veb, cli>>
  /\ UNCHANGED driver

\* reader.get_text, get_bwt, get_c_array, get_ssa or get_veb_layout
CGet(section) ==
  /\ reader.open
  /\ reader' = [reader EXCEPT !.got = section, !.result = IndexReader_get(file, section)]
  /\ UNCHANGED <<wt, bv, lbv, file, given, probe, veb, cli>>
  /\ UNCHANGED driver

NextContainer ==
  \/ \E flags \in {0, 3}, text_len \in {12, 12345} : CWriteHeader(flags, text_len)
  \/ \E section \in {1, 2, 3, 4, 6} :
       \E vec \in SectionContents(section), stride \in {1, DefaultStride} :
         /\ section # 4 => stride = 1
         /\ CWrite(section, vec, stride)
  \/ \E num_levels \in {1, 8}, words \in {2, 497}, supers \in {0, 2, 3} :
       CWriteWavelet([bits_ |-> [w \in 1..words |-> {w % 64, 63}],
                      super_ |-> [j \in 1..supers |-> 32 * (j - 1)],
                      blocks_ |-> [k \in 1..(2 * supers) |-> 8 * (k - 1)]],
                     num_levels)
  \/ CPad
  \/ CFinalize
  \/ CWriteFails
  \/ \E size \in {0, 1, 87, 88, 89, 4096}, version \in {0, 1, 2, 257} :
       \E magic \in {INDEX_MAGIC, <<67, 83, 73, 68, 88, 49, 0, 0>>,
                      <<67, 83, 73, 68, 89, 0, 0, 0>>, <<0, 0, 0, 0, 0, 0, 0, 0>>} :
         CForeign(size, magic, version)
  \/ COpen
  \/ \E section \in 1..6 : CGet(section)

SpecContainer == Init /\ [][NextContainer]_vars

\* ------------------------------------------------------ the build command
\* main up to the query loop, argv being the arguments after the program
\* name and input the bytes of the input file (unreadable: read_file
\* throws): the exit code 1, or -1 and the text to index.
CliMain(argv, unreadable, input) ==
  IF Len(argv) = 0 THEN [code |-> 1, text |-> <<>>]
  ELSE IF \E i \in 2..Len(argv) : argv[i] \notin {"--no-terminator", "--stats"}
    THEN [code |-> 1, text |-> <<>>]
  ELSE IF unreadable \/ Len(input) = 0 THEN [code |-> 1, text |-> <<>>]
  ELSE IF (\A i \in 2..Len(argv) : argv[i] # "--no-terminator")
            /\ input[Len(input)] \notin {Dollar, 0}
    THEN [code |-> -1, text |-> input \o <<Dollar>>]
  ELSE [code |-> -1, text |-> input]

\* std::getline(std::cin, pattern): a stream that is not good leaves the
\* string as it is; else the string is erased and takes the next line, and
\* reaching the end of the input before a newline ends the good state.
CliGetlined(c) ==
  IF ~c.good THEN c
  ELSE IF Len(c.stdin) = 0 THEN [c EXCEPT !.pattern = <<>>, !.good = FALSE]
  ELSE [c EXCEPT !.pattern = Head(c.stdin), !.stdin = Tail(c.stdin),
                 !.good = Len(c.stdin) > 1 \/ c.newline]

\* The build command is started.
CliStart(argv, unreadable, input, stdin, newline) ==
  /\ cli.pc = "idle"
  /\ phase = "Unbuilt"
  /\ IF CliMain(argv, unreadable, input).code = 1
     THEN /\ cli' = [NoCli EXCEPT !.pc = "exited", !.code = 1]
          /\ UNCHANGED <<phase, idx, stderr_>>
     ELSE /\ cli' = [NoCli EXCEPT !.pc = "prompt", !.stdin = stdin, !.newline = newline]
          /\ phase' = "Ready"
          /\ idx' = build_from_text(CliMain(argv, unreadable, input).text, DefaultStride)
          /\ stderr_' = stderr_ \o BuildDiagnostics
  /\ UNCHANGED <<call, ret>>
  /\ UNCHANGED <<wt, bv, lbv, file, reader, given, probe, veb>>

\* std::cout << "Pattern> "
CliPrompt ==
  /\ cli.pc = "prompt"
  /\ cli' = [cli EXCEPT !.pc = "getline"]
  /\ UNCHANGED <<wt, bv, lbv, file, reader, given, probe, veb>>
  /\ UNCHANGED driver

\* getline and the tests of the loop: quit, exit or q leaves the loop and
\* main returns 0, an empty pattern goes back to the prompt.
CliGetline ==
  /\ cli.pc = "getline"
  /\ cli' = IF CliGetlined(cli).pattern \in {<<113, 117, 105, 116>>, <<101, 120, 105, 116>>, <<113>>}
            THEN [CliGetlined(cli) EXCEPT !.pc = "exited", !.code = 0]
            ELSE IF Len(CliGetlined(cli).pattern) = 0
              THEN [CliGetlined(cli) EXCEPT !.pc = "prompt"]
            ELSE [CliGetlined(cli) EXCEPT !.pc = "query"]
  /\ UNCHANGED <<wt, bv, lbv, file, reader, given, probe, veb>>
  /\ UNCHANGED driver

\* index.count(pattern), and index.locate(pattern) for 1 to 10 matches; an
\* exception is caught inside the loop.
CliQuery ==
  /\ cli.pc = "query"
  /\ cli' = [cli EXCEPT !.pc = "prompt", !.count = FMIndex_count(idx, cli.pattern)]
  /\ UNCHANGED <<wt, bv, lbv, file, reader, given, probe, veb>>
  /\ UNCHANGED driver

NextCli ==
  \/ \E argv \in {<<>>, <<"in">>, <<"in", "--stats">>, <<"in", "--no-terminator">>,
                    <<"in", "--stats", "--bogus">>, <<"in", "--no-terminator", "--stats">>} :
       \E input \in {<<>>, Banana, SubSeq(Banana, 1, 6), <<97, 0>>, <<97, 32, 98>>},
          unreadable \in BOOLEAN :
         \E stdin \in SeqsUpTo({<<>>, Ana, <<113, 117, 105, 116>>, <<113>>}, MaxLines),
            newline \in BOOLEAN :
           CliStart(argv, unreadable, input, stdin, newline)
  \/ CliPrompt
  \/ CliGetline
  \/ CliQuery

\* The query of the loop returns, with some count.
CliQueryReturns ==
  /\ cli.pc = "query"
  /\ \E n \in 0..idx.n : cli' = [cli EXCEPT !.pc = "prompt", !.count = n]
  /\ UNCHANGED <<wt, bv, lbv, file, reader, given, probe, veb>>
  /\ UNCHANGED driver

\* A started process goes on executing as long as it has not exited.
SpecCli ==
  Init /\ [][NextCli]_vars
    /\ WF_vars(CliPrompt) /\ WF_vars(CliGetline) /\ WF_vars(CliQueryReturns)

\* --------------------------------------------------- the VebLayout alone
\* Level bit-vectors of the sizes of the tests and about the block sizes, the
\* last one longer than a macroblock; an array of n levels takes them in
\* turn from the one numbered from.
VebSample ==
  [k \in 1..5 |->
     BitVector_build(BitVector_new,
                     Vector(StreamBits(<<1, 0, 1>>, <<0, 8, 100, 2049, 33000>>[k])))]

VebLevels(n, from) == [l \in 1..n |-> VebSample[((from + l) % 5) + 1]]

\* veb.build(levels, num_levels, top_k) on a layout as constructed.
VBuild(levels, num_levels, top_k) ==
  /\ ~given.laid
  /\ veb' = VebLayout_build(levels, num_levels, top_k)
  /\ given' = [given EXCEPT !.laid = TRUE, !.levels = SubSeq(levels, 1, num_levels)]
  /\ UNCHANGED <<wt, bv, lbv, file, reader, probe, cli>>
  /\ UNCHANGED driver

\* veb.get_level_offset(level)
VLevel(level) ==
  /\ given.laid
  /\ probe = NoProbe
  /\ probe' = [NoProbe EXCEPT !.op = "get_level_offset", !.i = level,
                              !.value = VebLayout_get_level_offset(veb, level)]
  /\ UNCHANGED <<wt, bv, lbv, file, reader, given, veb, cli>>
  /\ UNCHANGED driver

NextVeb ==
  \/ \E n \in 0..MaxLevels, from \in 0..4 :
       \E num_levels \in 0..n, top_k \in 0..(MaxLevels + 1) :
         VBuild(VebLevels(n, from), num_levels, top_k)
  \/ \E level \in 0..(MaxLevels + 1) : VLevel(level)

SpecVeb == Init /\ [][NextVeb]_vars

\* ------------------------------------------------------ reference notions
\* p occurs in T at the 0-based position i: T[i .. i+|p|) = p.
OccursAt(T, p, i) == i + Len(p) <= Len(T) /\ SubSeq(T, i + 1, i + Len(p)) = p

\* The starting positions of p in T.
Occurrences(T, p) == {i \in 0..(Len(T) - 1) : OccursAt(T, p, i)}

\* T ends with a byte that occurs nowhere else in T.
EndsWithUniqueByte(T) ==
  Len(T) >= 1 /\ \A i \in 1..(Len(T) - 1) : T[i] # T[Len(T)]

\* T ends with a sentinel that is unique in T and smaller than every other byte.
EndsWithMinimalSentinel(T) ==
  Len(T) >= 1 /\ \A i \in 1..(Len(T) - 1) : T[i] > T[Len(T)]

Range(s) == {s[i] : i \in 1..Len(s)}

Counted == phase = "Ready" /\ call.op = "count"
Located == phase = "Ready" /\ call.op = "locate"
Extracted == phase = "Ready" /\ call.op = "extract"

\* --------------------------------------------------------------- claims
\* C1: on a text that ends with a unique minimal sentinel, count(p) of every
\* non-empty pattern p, patterns containing the sentinel byte included, is
\* the number of positions i with T[i .. i+|p|) = p.
C1_CountIsNaive ==
  (Counted /\ EndsWithMinimalSentinel(idx.text_) /\ Len(call.pattern) >= 1)
    => ret.count = Cardinality(Occurrences(idx.text_, call.pattern))

\* C2: on a text that ends with a unique minimal sentinel, locate(p, limit)
\* with limit at least the number of occurrences returns every starting
\* position of p, only starting positions of p, and none twice.
C2_LocateIsNaive ==
  (Located /\ EndsWithMinimalSentinel(idx.text_) /\ Len(call.pattern) >= 1
     /\ call.limit >= Cardinality(Occurrences(idx.text_, call.pattern)))
    => /\ ret.thrown = ""
       /\ Range(ret.positions) = Occurrences(idx.text_, call.pattern)
       /\ Len(ret.positions) = Cardinality(Occurrences(idx.text_, call.pattern))

\* C3: locate returns the positions in ascending order of text position; on
\* "banana$" built with the default stride, locate("ana") is <<1, 3>>.
C3_LocateAscending ==
  Located =>
    /\ ret.thrown = "" =>
         \A k \in 1..(Len(ret.positions) - 1) : ret.positions[k] < ret.positions[k + 1]
    /\ (idx.text_ = Banana /\ idx.ssa_.stride = DefaultStride /\ call.pattern = Ana
          /\ call.limit = DefaultLimit)
         => (ret.thrown = "" /\ ret.positions = <<1, 3>>)

\* C4: on every built index, locate(p, L) of a non-empty p returns exactly
\* min(count(p), L) positions, and they are the first ones of locate(p, L')
\* for every larger L'.
C4_LimitIsPrefix ==
  (Located /\ Len(call.pattern) >= 1) =>
    /\ ret.thrown = ""
    /\ Len(ret.positions) = Min(FMIndex_count(idx, call.pattern), call.limit)
    /\ \A L2 \in Limits :
         L2 > call.limit =>
           LET full == FMIndex_locate(idx, call.pattern, L2)
           IN /\ full.thrown = ""
              /\ Len(full.positions) >= Len(ret.positions)
              /\ SubSeq(full.positions, 1, Len(ret.positions)) = ret.positions

\* C4 on the texts that end with a byte unique in the text.
C4_LimitIsPrefixWithSentinel == EndsWithUniqueByte(idx.text_) => C4_LimitIsPrefix

\* The LF walk that locate starts at the BWT index i.
WalkOf(i) == LFWalk(idx, i, 0)

\* The index as build_from_text returned it, no query in progress.
Idle == phase = "Ready" /\ call = NoCall

\* C5 as stated: on a text with a unique minimal sentinel the LF walk from
\* every BWT index i in [0, n) reaches a multiple of the stride d after at
\* most d steps.
C5_WalkWithinStride ==
  (Idle /\ EndsWithMinimalSentinel(idx.text_)) =>
    \A i \in 0..(idx.n - 1) :
      /\ WalkOf(i).bwt_pos % idx.ssa_.stride = 0
      /\ WalkOf(i).steps <= idx.ssa_.stride

\* C5 amended: the walk from every BWT index reaches a multiple of the
\* stride after at most n - 1 steps.
C5_WalkWithinText ==
  (Idle /\ EndsWithMinimalSentinel(idx.text_)) =>
    \A i \in 0..(idx.n - 1) :
      /\ WalkOf(i).bwt_pos % idx.ssa_.stride = 0
      /\ WalkOf(i).steps <= idx.n - 1

\* A locate whose first hit needed more LF steps than the stride.
C5_Witness ==
  /\ Located /\ EndsWithMinimalSentinel(idx.text_)
  /\ Len(ret.positions) >= 1
  /\ LET r == BackwardSearch(idx, call.pattern, Len(call.pattern), 0, idx.n)
     IN WalkOf(r.sp).steps > idx.ssa_.stride

\* C6: on a text that ends with a byte unique in the text locate never
\* throws; every LF walk ends on a sampled index in fewer than n steps and
\* the sample index lies inside the stored samples.
C6_LocateNeverThrows ==
  /\ (Located /\ EndsWithUniqueByte(idx.text_)) => ret.thrown = ""
  /\ (Idle /\ EndsWithUniqueByte(idx.text_)) =>
       \A i \in 0..(idx.n - 1) :
         /\ WalkOf(i).steps < idx.n
         /\ WalkOf(i).bwt_pos \div idx.ssa_.stride < Len(idx.ssa_.samples)

\* A locate with several hits and real walks on a text whose unique last
\* byte is not the smallest byte.
C6_Witness ==
  /\ Located /\ EndsWithUniqueByte(idx.text_) /\ ~EndsWithMinimalSentinel(idx.text_)
  /\ Len(ret.positions) >= 2
  /\ \E i \in 0..(idx.n - 1) : WalkOf(i).steps >= 2

\* A line on std::cerr that is not one of the timer lines.
Announced == \E k \in 1..Len(stderr_) : stderr_[k] \notin Range(BuildDiagnostics)

\* C7: count and locate never answer over a text that does not end with a
\* unique sentinel unless the build rejected it or warned.
C7_NoSilentIndexWithoutSentinel ==
  ((Counted \/ Located) /\ ~EndsWithUniqueByte(idx.text_)) => Announced

\* C8: extract(p, len) is T[p .. min(p+len, n)), of min(len, n-p) bytes, and
\* empty for p >= n; p + len is taken in the integers, beyond the word range.
C8_ExtractIsSubstring ==
  Extracted =>
    /\ call.p >= idx.n => ret.bytes = <<>>
    /\ call.p < idx.n =>
         /\ ret.bytes = SubSeq(idx.text_, call.p + 1, Min(call.p + call.len, idx.n))
         /\ Len(ret.bytes) = Min(call.len, idx.n - call.p)

\* An extract inside the text whose p + len exceeds the word range.
C8_Witness ==
  /\ Extracted /\ call.p < idx.n /\ call.p >= 1
  /\ call.p + call.len > U64Max
  /\ Len(ret.bytes) >= 1

\* C9: on the index of the empty text count is 0 for every pattern, the
\* empty one included, and locate is empty; on a non-empty text the count
\* of the empty pattern is n.
C9_EmptyConventions ==
  /\ (Counted /\ idx.text_ = <<>>) => ret.count = 0
  /\ (Located /\ idx.text_ = <<>>) => (ret.thrown = "" /\ ret.positions = <<>>)
  /\ (Counted /\ idx.text_ # <<>> /\ call.pattern = <<>>) => ret.count = Len(idx.text_)

\* The empty pattern counted on the index built from the empty text.
C9_Witness == Counted /\ idx.text_ = <<>> /\ call.pattern = <<>> /\ ret.count = 0

\* The number of copies of the byte run in the full-alphabet text of the index.
Copies == (idx.n - 1) \div 255

\* C10 as stated: on the text of k copies of the bytes 1..255 followed by
\* '$', for every byte c in 1..255 the count of the one-byte pattern c is k
\* and locate returns exactly the positions c-1 + 255*j, 0 <= j < k.
C10_FullAlphabet ==
  /\ Counted => ret.count = Copies
  /\ Located =>
       /\ ret.thrown = ""
       /\ Range(ret.positions) = {call.pattern[1] - 1 + 255 * j : j \in 0..(Copies - 1)}

\* C10 apart from '$': what the code returns on the full-alphabet text.  The
\* count and the positions are as stated for every byte other than '$'; the byte '$'
\* of the run is found k times in the run and once more at the end of the
\* text, at position 255*k.
C10_FullAlphabetButDollar ==
  /\ (Counted /\ call.pattern # <<Dollar>>) => ret.count = Copies
  /\ (Counted /\ call.pattern = <<Dollar>>) => ret.count = Copies + 1
  /\ (Located /\ call.pattern # <<Dollar>>) =>
       /\ ret.thrown = ""
       /\ Range(ret.positions) = {call.pattern[1] - 1 + 255 * j : j \in 0..(Copies - 1)}
  /\ (Located /\ call.pattern = <<Dollar>>) =>
       /\ ret.thrown = ""
       /\ Range(ret.positions) =
            {Dollar - 1 + 255 * j : j \in 0..(Copies - 1)} \cup {255 * Copies}

\* The byte 200 located in the text of two copies.
C10_Witness ==
  /\ Located /\ Copies = 2 /\ call.pattern = <<200>>
  /\ Range(ret.positions) = {199, 454}

\* --------------------------------------------------------------- C11 .. C13
\* B[0..i) holds c this many times.
NaiveRank(B, c, i) == Cardinality({k \in 1..Min(i, Len(B)) : B[k] = c})

Ranked == probe.op = "rank"
Accessed == probe.op = "access" /\ ~probe.aborted

\* C11: rank(c, i) of the tree built from B is the number of positions k < i
\* with B[k] = c, for every byte c and every i from 0 to n.
C11_RankIsNaive ==
  (Ranked /\ probe.i <= Len(given.B))
    => probe.value = NaiveRank(given.B, probe.c, probe.i)

\* A rank inside a sequence of at least two distinct bytes that counted some
\* but not all occurrences.
C11_Witness ==
  /\ Ranked
  /\ probe.i < Len(given.B)
  /\ probe.value > 0
  /\ probe.value < NaiveRank(given.B, probe.c, Len(given.B))
  /\ \E k \in 1..probe.i : given.B[k] # probe.c

\* C12: access(i) of the tree built from B is B[i], for every i < n.
C12_AccessIsSymbol ==
  (Accessed /\ probe.i < Len(given.B)) => probe.value = At(given.B, probe.i)

\* An access past the first position that returned a byte with zero and one
\* bits, other bytes standing before it.
C12_Witness ==
  /\ Accessed
  /\ probe.i > 0
  /\ probe.i < Len(given.B)
  /\ probe.value = 97
  /\ \E k \in 1..probe.i : given.B[k] = 98

\* C13: rank(c, i) for i > n is rank(c, n), the number of occurrences of c
\* in the whole sequence.
C13_RankClampsPastEnd ==
  (Ranked /\ probe.i > Len(given.B))
    => probe.value = NaiveRank(given.B, probe.c, Len(given.B))

\* --------------------------------------------------------------- C14 .. C16
\* The number of 1 bits among the first i of bits.
NaiveRank1(bits, i) == Cardinality({k \in 1..Min(i, Len(bits)) : bits[k] # 0})

Asked(op) == probe.op = op

\* C14: rank1(i) of a vector built by build() from n bits is the number of
\* 1 bits before i, for every i from 0 to n.
C14_Rank1IsNaive ==
  (given.how = "bits" /\ Asked("rank1") /\ probe.i <= Len(given.bits))
    => probe.value = NaiveRank1(given.bits, probe.i)

\* rank1 inside a vector of more than one super-block, on a super-block, a
\* sub-block or a word boundary, ones and zeros standing before it.
C14_OnBoundary(size) ==
  /\ given.how = "bits"
  /\ Asked("rank1")
  /\ probe.i > CS_SUPER_BLOCK_SIZE - 1
  /\ probe.i < Len(given.bits)
  /\ probe.i % size = 0
  /\ probe.value > 0
  /\ probe.value < probe.i

C14_Witness == C14_OnBoundary(CS_SUPER_BLOCK_SIZE)

\* The last packed word of bv has 1 bits from nbits_ on.
StrayBits ==
  /\ bv.nbits_ % 64 # 0
  /\ \E b \in At(bv.bits_, Len(bv.bits_) - 1) : b >= bv.nbits_ % 64

\* C15: from n_bits on rank1 is count_ones(), the number of 1 bits, and get
\* is 0; rank0(i) + rank1(i) is min(i, n_bits) for every i; on the empty
\* vector size, rank1, rank0 and count_ones are 0 whatever the argument.
C15_QueriesClamp ==
  /\ (Asked("rank1") /\ probe.i >= bv.nbits_)
       => /\ probe.value = BitVector_count_ones(bv)
          /\ probe.value = NaiveRank1(given.bits, Len(given.bits))
  /\ (Asked("get") /\ probe.i >= bv.nbits_) => probe.value = 0
  /\ Asked("rank0") => probe.value + BitVector_rank1(bv, probe.i) = Min(probe.i, bv.nbits_)
  /\ (bv.nbits_ = 0 /\ probe.op \in {"size", "rank1", "rank0", "count_ones"})
       => probe.value = 0

\* rank1 asked past the end of a vector with zeros and ones whose last word
\* has stray bits.
C15_Witness ==
  /\ Asked("rank1")
  /\ probe.i > bv.nbits_
  /\ probe.value > 0
  /\ probe.value < bv.nbits_
  /\ StrayBits

\* The queries and the rank arrays of bv are those of ref.
SameAs(ref) ==
  /\ BitVector_size(bv) = BitVector_size(ref)
  /\ bv.super_ = ref.super_
  /\ bv.blocks_ = ref.blocks_
  /\ probe.op \in {"rank1", "rank0", "get", "count_ones", "size"}
       => probe.value = BitVector_query(ref, probe.op, probe.i)

\* C16: a vector built by build_from_words(words, n_bits) from at most
\* ceil(n_bits / 64) words has the size, rank1, rank0, get, count_ones and
\* the super-block and sub-block arrays of the vector build() makes of the
\* n_bits bits unpacked from the words.
C16_FromWordsIsBuild == given.how = "words" => SameAs(given.ref)

\* rank1 asked at the end of a vector of more than one super-block built
\* from words whose last word has stray bits.
C16_Witness ==
  /\ given.how = "words"
  /\ Asked("rank1")
  /\ bv.nbits_ > CS_SUPER_BLOCK_SIZE
  /\ probe.i = bv.nbits_
  /\ probe.value > 0
  /\ StrayBits

\* ----------------------------------------------------------------------- C17
\* C17: rank1(i) of the learned vector built with strides S and s, s >= 1
\* dividing S, is rank1(i) of the BitVector built from the same bits, for
\* every i from 0 to n_bits and whatever the fitted model predicts.
C17_LearnedIsClassic ==
  (Asked("learned_rank1") /\ probe.i <= Len(given.bits))
    => probe.value = BitVector_rank1(given.ref, probe.i)

\* rank1 inside a micro-block that is not the first of its coarse block nor
\* in the first coarse block, under a model that predicts far above the rank.
C17_Witness ==
  /\ Asked("learned_rank1")
  /\ probe.i < lbv.nbits_
  /\ probe.i > lbv.S_ + lbv.s_
  /\ (probe.i % lbv.S_) > lbv.s_
  /\ probe.i % lbv.s_ # 0
  /\ lbv.pgm_.b = 1000
  /\ probe.value > 0
  /\ probe.value < probe.i

\* ----------------------------------------------------------------------- C18
\* The number of bytes of str equal to c.
Frequency(str, c) == Cardinality({k \in 1..Len(str) : str[k] = c})

\* C18: after build_from_text the C table has 257 entries, C[0] = 0,
\* C[c+1] - C[c] is the number of occurrences of the byte c in the BWT and in
\* the text for every c in 0..255 (so C does not decrease), and C[256] = n.
C18_CTable ==
  phase = "Ready" =>
    /\ Len(idx.C_) = 257
    /\ At(idx.C_, 0) = 0
    /\ \A c \in 0..255 :
         /\ At(idx.C_, c + 1) - At(idx.C_, c) = Frequency(idx.bwt_, c)
         /\ At(idx.C_, c + 1) - At(idx.C_, c) = Frequency(idx.text_, c)
         /\ At(idx.C_, c) <= At(idx.C_, c + 1)
    /\ At(idx.C_, 256) = Len(idx.text_)

\* An index over a text in which one byte occurs several times and a
\* greater byte occurs as well.
C18_Witness ==
  /\ phase = "Ready"
  /\ \E c \in 0..254 :
       /\ At(idx.C_, c + 1) - At(idx.C_, c) >= 2
       /\ At(idx.C_, 256) > At(idx.C_, c + 1)

\* ----------------------------------------------------------------------- C19
\* C19: a Ready index that was serialized can be reopened: opening returns
\* an index (one that answers count and locate as the original does).
C19_Reopens == call.op = "open_directory" => ret.thrown = ""

\* ----------------------------------------------------------------------- C20
\* The reader has asked for the section that was written.
GotWritten ==
  given.section \in {1, 2, 3, 4, 6} /\ reader.open /\ reader.got = given.section

\* The accessor returned the content written and the header read back is
\* the one set.
ReadBack ==
  /\ ~reader.result.null
  /\ reader.result.count = Len(given.content)
  /\ reader.result.content = given.content
  /\ given.section = 4 => reader.result.stride = given.stride
  /\ reader.flags = given.flags
  /\ reader.text_len = given.text_len

\* C20: for every section kind and every content, after write_header, the
\* write call of the section and finalize (calls that return), a reader
\* opened on the file returns a non-null pointer, the count and the content
\* written (and the stride of an SSA), and the flags and text_len set.
C20_SectionRoundTrip ==
  /\ given.section # 0 => file.status \in {"open", "closed"}
  /\ GotWritten => ReadBack

\* What the code does of C20: a file whose writer returned from every call
\* reads back what was written, but for the empty vEB section.
C20_RoundTripWhenReturned ==
  (GotWritten /\ ~(given.section = 6 /\ given.content = <<>>)) => ReadBack

C20_ReturnedWitness ==
  /\ GotWritten
  /\ given.section = 3
  /\ Len(given.content) > 2
  /\ \E k \in 1..Len(given.content) : given.content[k] > 65535

\* ----------------------------------------------------------------------- C21
\* The file is shorter than the header, or its header has not the magic
\* "CSIDX" in its first five bytes, or not the version 1.
BadContainer ==
  \/ file.current_offset_ < HeaderSize
  \/ \E k \in 1..5 : file.header_.magic[k] # <<67, 83, 73, 68, 88>>[k]
  \/ file.header_.version # 1

\* C21: opening a file shorter than the 88-byte header, or whose first five
\* magic bytes are not "CSIDX", or whose version is not 1, throws and leaves
\* nothing mapped; a reader exists, and its accessors are called, only on a
\* file that passed the checks.
C21_OpenChecks ==
  /\ (BadContainer /\ (reader.thrown # "" \/ reader.open)) =>
       (reader.thrown # "" /\ ~reader.mapped /\ ~reader.open)
  /\ (reader.open \/ reader.got # 0) => (~BadContainer /\ reader.thrown = "")

C21_Witness ==
  /\ file.status = "foreign"
  /\ file.current_offset_ >= HeaderSize
  /\ file.header_.magic = INDEX_MAGIC
  /\ file.header_.version = 257
  /\ reader.thrown = "Invalid index file: bad magic or version"

\* ----------------------------------------------------------------------- C22
\* C22: after VebLayout.build the offset of every bottom level l,
\* min(top_k, num_levels) <= l < num_levels, is a multiple of 4096, and so
\* is the size of the buffer.
C22_BottomAligned ==
  given.laid =>
    /\ \A l \in veb.top_k_..(veb.num_levels_ - 1) :
         VebLayout_get_level_offset(veb, l) % 4096 = 0
    /\ Len(veb.packed_data_) % 4096 = 0

C22_Witness ==
  /\ given.laid
  /\ veb.num_levels_ - veb.top_k_ >= 2
  /\ veb.top_k_ >= 1
  /\ \E l \in 1..veb.num_levels_ : given.levels[l].nbits_ = 0
  /\ \E l \in 1..veb.num_levels_ : given.levels[l].nbits_ > 8 * 4096

\* ----------------------------------------------------------------------- C23
\* The number of bytes of the serialization of the bit-vector b.
SerializedSize(b) == 8 + 8 * Len(b.bits_) + 4 * Len(b.super_) + 2 * Len(b.blocks_)

\* The bytes of the buffer from the offset off on read as a serialized
\* bit-vector are those of b: n_bits in 8 bytes, then every bit of every
\* word, every super-block rank in 4 bytes and every sub-block rank in 2.
LevelAt(off, b) ==
  /\ off + SerializedSize(b) <= Len(veb.packed_data_)
  /\ FromBytes(SubSeq(veb.packed_data_, off + 1, off + 8)) = b.nbits_
  /\ \A w \in 1..Len(b.bits_) : \A k \in 0..63 :
       (k \in b.bits_[w]) <=>
         ((veb.packed_data_[off + 8 + 8 * (w - 1) + (k \div 8) + 1] \div Pow2(k % 8)) % 2 = 1)
  /\ \A j \in 1..Len(b.super_) :
       FromBytes(SubSeq(veb.packed_data_, off + 8 + 8 * Len(b.bits_) + 4 * (j - 1) + 1,
                        off + 8 + 8 * Len(b.bits_) + 4 * j)) = b.super_[j]
  /\ \A j \in 1..Len(b.blocks_) :
       FromBytes(SubSeq(veb.packed_data_,
                        off + 8 + 8 * Len(b.bits_) + 4 * Len(b.super_) + 2 * (j - 1) + 1,
                        off + 8 + 8 * Len(b.bits_) + 4 * Len(b.super_) + 2 * j)) = b.blocks_[j]

\* C23: after VebLayout.build, get_level_offset(l) of every level
\* l < num_levels is the start of that level's serialization (n_bits, words,
\* super-block ranks, sub-block ranks, byte for byte); level 0 is at the
\* offset 0, the offsets strictly increase with l, and the serialized ranges
\* of the levels do not overlap and lie inside the buffer.
C23_LevelOffsets ==
  given.laid =>
    /\ \A l \in 0..(veb.num_levels_ - 1) :
         LevelAt(VebLayout_get_level_offset(veb, l), given.levels[l + 1])
    /\ veb.num_levels_ > 0 => VebLayout_get_level_offset(veb, 0) = 0
    /\ \A l \in 0..(veb.num_levels_ - 2) :
         VebLayout_get_level_offset(veb, l) + SerializedSize(given.levels[l + 1])
           <= VebLayout_get_level_offset(veb, l + 1)

C23_Witness ==
  /\ given.laid
  /\ veb.num_levels_ >= 3
  /\ veb.top_k_ = 2
  /\ given.levels[1].nbits_ > 0
  /\ Len(given.levels[2].super_) >= 2
  /\ VebLayout_get_level_offset(veb, 2) > 4096

\* ----------------------------------------------------------------------- C26
\* C26: every serialized level of the vEB buffer is naturally aligned: the
\* offset of its n_bits header and of its word array is a multiple of 8,
\* that of its super-block array a multiple of 4 and that of its sub-block
\* array a multiple of 2, for inline top levels and bottom levels alike.
C26_NaturallyAligned ==
  given.laid =>
    \A l \in 0..(veb.num_levels_ - 1) :
      /\ VebLayout_get_level_offset(veb, l) % 8 = 0
      /\ (VebLayout_get_level_offset(veb, l) + 8 + 8 * Len(given.levels[l + 1].bits_)) % 4 = 0
      /\ (VebLayout_get_level_offset(veb, l) + 8 + 8 * Len(given.levels[l + 1].bits_)
            + 4 * Len(given.levels[l + 1].super_)) % 2 = 0

\* ----------------------------------------------------------------------- C24
\* C24: the build command always terminates with a contractual exit code:
\* 1 on a usage error, an unreadable or an empty input file, 0 after a
\* successful build once its query input is finished, by a quit line or by
\* the end of the input.
C24_BuildExits == (cli.pc # "idle") ~> (cli.pc = "exited" /\ cli.code \in {0, 1})

\* What the code does of C24: a run that has exited has the exit code 1
\* when no index was built and 0 when one was, and a quit line read from a
\* good input ends the run.
C24_ExitCodes ==
  /\ cli.pc = "exited" => cli.code = (IF phase = "Ready" THEN 0 ELSE 1)
  /\ (cli.pc # "exited" /\ cli.pc # "idle") => phase = "Ready"

C24_ExitCodesWitness == cli.pc = "exited" /\ cli.code = 0 /\ cli.count > 0

\* ----------------------------------------------------------------------- C25
\* C25: when build_from_text has returned (the index is Ready) the full
\* suffix array has been released: the FMIndex holds the text, the BWT, the
\* C table, the wavelet tree and the sampled suffix array, and no SA of n
\* entries.
C25_SAReleased == phase = "Ready" => Len(idx.sa_) = 0

\* ----------------------------------------------------------------------- C27
\* The wavelet section was written, alone or with the vEB section after it,
\* and the reader has asked for it.
GotWavelet ==
  given.num_levels # 0 /\ given.section \in {5, 6} /\ reader.open /\ reader.got = 5

\* C27: after write_header, write_wavelet(bits, super, sub, num_levels) and
\* finalize, with or without a vEB section written afterwards, the calls
\* have returned and get_wavelet returns a non-null pointer whose first 8
\* bytes decode to num_levels, and reports a strictly positive size.
C27_WaveletReadable ==
  /\ (given.num_levels # 0 /\ given.section \in {5, 6}) => file.status \in {"open", "closed"}
  /\ GotWavelet =>
       /\ ~reader.result.null
       /\ reader.result.content = <<given.num_levels>>
       /\ reader.result.count > 0

\* What the code does of C27: the pointer and num_levels are right whenever
\* the file could be finalized, and the size is positive when a non-empty
\* vEB section follows.
C27_WaveletBeforeVeb ==
  GotWavelet =>
    /\ ~reader.result.null
    /\ reader.result.content = <<given.num_levels>>
    /\ (given.section = 6 /\ Len(given.content) > 0) => reader.result.count > 0

C27_WaveletBeforeVebWitness ==
  GotWavelet /\ given.section = 6 /\ Len(given.content) > 0 /\ given.num_levels = 8

\* ----------------------------------------------------------------------- C28
\* C28: every IndexWriter operation terminates; its padding step ends once
\* it has written exactly the missing bytes: a call is in the padding loop
\* only as long as it has written fewer zeros than the padding.
C28_PaddingEnds == file.status = "looping" => file.padded < file.padding

\* ----------------------------------------------------------------------- C29
\* C29: building again replaces the previous contents: after a second build
\* or build_from_words on the same BitVector, size, rank1, rank0, get and
\* count_ones are those of the last input and the super-block and sub-block
\* arrays hold exactly ceil(n_bits / 2048) and ceil(n_bits / 256) entries;
\* after a second build of a WaveletTree rank is that of the last sequence.
C29_RebuildReplaces ==
  given.again =>
    /\ given.how # "" =>
         /\ SameAs(given.ref)
         /\ Len(bv.super_) = (bv.nbits_ + CS_SUPER_BLOCK_SIZE - 1) \div CS_SUPER_BLOCK_SIZE
         /\ Len(bv.blocks_) = (bv.nbits_ + CS_SUB_BLOCK_SIZE - 1) \div CS_SUB_BLOCK_SIZE
    /\ (given.wtBuilt /\ Ranked /\ probe.i <= Len(given.B))
         => probe.value = NaiveRank(given.B, probe.c, probe.i)

\* What the code does of C29: a build() of an empty input clears the vector,
\* and size, get and count_ones, which read nbits_ and bits_ only, are those
\* of the last input after every build.
C29_WordsReplaced ==
  (given.again /\ given.how # "") =>
    /\ Len(given.bits) = 0 => (bv.nbits_ = 0 /\ Len(bv.bits_) = 0)
    /\ probe.op \in {"get", "count_ones", "size"}
         => probe.value = BitVector_query(given.ref, probe.op, probe.i)

C29_WordsReplacedWitness ==
  /\ given.again
  /\ Asked("count_ones")
  /\ probe.value > 0
  /\ Len(bv.super_) > 2

\* ----------------------------------------------------------------------- C30
\* The text of the index ends with a byte that occurs nowhere else in it, a
\* non-empty pattern without that byte was asked for.
AvoidsLastByte ==
  /\ EndsWithUniqueByte(idx.text_)
  /\ Len(call.pattern) >= 1
  /\ idx.text_[Len(idx.text_)] \notin Range(call.pattern)

\* C30: on every text whose last byte occurs nowhere else in it, texts with
\* bytes smaller than the last byte included, and for every non-empty
\* pattern p without that last byte, count(p) is the number of occurrences
\* of p in the text and locate(p) returns exactly their starting positions.
C30_UniqueLastByteSuffices ==
  /\ (Counted /\ AvoidsLastByte)
       => ret.count = Cardinality(Occurrences(idx.text_, call.pattern))
  /\ (Located /\ AvoidsLastByte
        /\ call.limit >= Cardinality(Occurrences(idx.text_, call.pattern)))
       => /\ ret.thrown = ""
          /\ Range(ret.positions) = Occurrences(idx.text_, call.pattern)
          /\ Len(ret.positions) = Cardinality(Occurrences(idx.text_, call.pattern))

\* locate found two occurrences in a text that holds a byte smaller than
\* its last byte.
C30_Witness ==
  /\ Located /\ AvoidsLastByte
  /\ ~EndsWithMinimalSentinel(idx.text_)
  /\ call.limit = DefaultLimit
  /\ Len(ret.positions) = 2

====
